---------------------------- MODULE Spec2Model ----------------------------
(***************************************************************************)
(* Model of vim-rest-client (src/src/lib.rs, src/src/process_while.rs):    *)
(* the fold state machine GlobalEnv::parse_input, the FoldEnv renderers,    *)
(* variable assignment and substitution, and the While construct.           *)
(*                                                                         *)
(* Strings.  A Rust String is modelled as a Text: the sequence of its       *)
(* lines plus a flag `open` that says the last line is not yet terminated   *)
(* by '\n'.  The empty String is the Text with no lines.  A line is a       *)
(* record whose field k names how the line begins, which is what every      *)
(* starts_with / regex test of the source looks at:                         *)
(*    "start"   ###{ [while {{cond}}] [name] [executed [(SUCCESS|ERROR)]]    *)
(*    "end"     ###}[ rest]                                                 *)
(*    "divider" ##########[ title][RESULT|ERROR]                            *)
(*    "assign"  @name = value      (value = <<>>: no "= value" part; sep    *)
(*              is the text between the name and the value as written)      *)
(*    "hash"    any other line beginning with '#'                            *)
(*    "blank"   the empty line (also the empty String)                       *)
(*    "text"    any other line, a sequence of tokens                         *)
(*    "glued"   two lines concatenated without a '\n' between them           *)
(* Values of templates are sequences of string tokens; "{{" and "}}" are    *)
(* tokens, so that the substitution regex can be modelled on them.          *)
(***************************************************************************)
EXTENDS Integers, Sequences, FiniteSets, TLC

(***************************************************************************)
(* Bounds of the model.                                                    *)
(***************************************************************************)
MaxLines == 5
MaxIter == 3

\* the longest document of nested folds
MaxNestLines == 8

(***************************************************************************)
(* Strings as Texts.                                                       *)
(***************************************************************************)
BlankLine == [k |-> "blank"]

EmptyText == [lines |-> <<>>, open |-> FALSE]

Glue(a, b) ==
  IF b = BlankLine THEN a
  ELSE IF a = BlankLine THEN b
  ELSE [k |-> "glued", a |-> a, b |-> b]

Front(s) == SubSeq(s, 1, Len(s) - 1)

LastOf(s) == s[Len(s)]

\* String::is_empty
IsEmpty(t) == t.lines = <<>>

\* String::push('\n')
PushNL(t) ==
  IF t.open THEN [t EXCEPT !.open = FALSE]
  ELSE [lines |-> Append(t.lines, BlankLine), open |-> FALSE]

\* String::push_str(s) for a string s that holds no '\n': the single line l
PushLine(t, l) ==
  IF l = BlankLine THEN t
  ELSE IF t.open
    THEN [lines |-> Append(Front(t.lines), Glue(LastOf(t.lines), l)), open |-> TRUE]
    ELSE [lines |-> Append(t.lines, l), open |-> TRUE]

\* String::push_str(s) for any string s
PushStr(t, s) ==
  IF IsEmpty(s) THEN t
  ELSE IF t.open
    THEN [lines |-> Front(t.lines) \o <<Glue(LastOf(t.lines), Head(s.lines))>>
                      \o Tail(s.lines),
          open |-> s.open]
    ELSE [lines |-> t.lines \o s.lines, open |-> s.open]

\* the string "l\n"
LineNL(l) == [lines |-> <<l>>, open |-> FALSE]

\* the string "l"
LineStr(l) == IF l = BlankLine THEN EmptyText ELSE [lines |-> <<l>>, open |-> TRUE]

\* the string of the lines ls, each terminated by '\n'
LinesNL(ls) == [lines |-> ls, open |-> FALSE]

\* insert_newline: adds a newline if the last char is not a newline
insert_newline(s) == IF s.open THEN [s EXCEPT !.open = FALSE] ELSE s

\* str::lines(), and the lines BufRead::read_line yields one by one
LinesOf(t) == t.lines

(***************************************************************************)
(* Lines.                                                                  *)
(***************************************************************************)
NoTitle == [cond |-> <<>>, name |-> ""]

StartLine(cond, name, suf) == [k |-> "start", cond |-> cond, name |-> name, suf |-> suf]

EndLine(rest) == [k |-> "end", rest |-> rest]

DividerLine(title, status) == [k |-> "divider", title |-> title, status |-> status]

\* "@name = value" as format!("@{} = {}") of define_var writes it (lib.rs 641)
AssignLine(name, val) == [k |-> "assign", name |-> name, val |-> val, sep |-> " = "]

\* a line beginning with '#': flag is "comment", "name", "form", "debug",
\* "verbose", or "subhdr" / "subend" for the reduced result header
\* "### <title>RESULT|ERROR" and its closing line "###[ rest]"
HashLine(flag, arg, title, status) ==
  [k |-> "hash", flag |-> flag, arg |-> arg, title |-> title, status |-> status]

TextLine(toks) == [k |-> "text", toks |-> toks]

\* the beginning of a line: of a glued line, its first part
RECURSIVE LineHead(_)
LineHead(l) == IF l.k = "glued" THEN LineHead(l.a) ELSE l

\* Regex WHILE_START ^###\{\s*while\s*(\{\{.*\}\})
IsWhileStart(l) == LineHead(l).k = "start" /\ LineHead(l).cond # <<>>

\* Regex WHILE_END ^###\}\s*endwhile
IsWhileEnd(l) == LineHead(l).k = "end" /\ LineHead(l).rest = "endwhile"

\* Regex start_fold_re ^(###\{\s*(.*))$
IsStart(l) == LineHead(l).k = "start"

\* line.starts_with("###}")
IsEnd(l) == LineHead(l).k = "end"

\* line.starts_with("##########")
IsDivider(l) == LineHead(l).k = "divider"

\* executed_re.replace(.., ""): strips " executed", " executed (SUCCESS)" or
\* " executed (ERROR)" from the end of a start-marker line
StripExecuted(l) == IF l.k = "start" THEN [l EXCEPT !.suf = ""] ELSE l

\* the title captured by start_fold_re (group 2), executed suffix stripped
TitleOf(l) ==
  IF l.k = "start" THEN [cond |-> l.cond, name |-> l.name]
  ELSE [cond |-> <<>>, name |-> "glued"]

\* format!("{} executed ({})", start_marker, status)
WithExecuted(marker, status) ==
  IF marker.k = "start" /\ marker.suf = "" THEN [marker EXCEPT !.suf = status]
  ELSE Glue(marker, TextLine(<<" executed (", status, ")">>))


(***************************************************************************)
(* JSON values and the Environment.  A value is null, a number, a boolean  *)
(* or a string (its content a sequence of tokens).  The Environment is the *)
(* root object: a function from its keys to values.                        *)
(***************************************************************************)
Null == [t |-> "null"]

Num(n) == [t |-> "num", n |-> n]

Bool(b) == [t |-> "bool", b |-> b]

Str(s) == [t |-> "str", s |-> s]

\* numbers the bounded runs can produce
NumRange == 0 .. (MaxLines * (MaxIter + 1) + 2)

IsNumTok(tok) == \E n \in NumRange : ToString(n) = tok

NumOf(tok) == CHOOSE n \in NumRange : ToString(n) = tok

Ok(v) == [ok |-> TRUE, val |-> v, err |-> EmptyText]

Err(e) == [ok |-> FALSE, val |-> Null, err |-> e]

\* lib.rs io_error(msg) with a one-line message
io_error(toks) == LineStr(TextLine(toks))

BraceToks == {"{{", "}}", "{", "}"}

Quote == "\""

\* serde_json::from_str::<Value> on a substituted value text
from_str(toks) ==
  IF Len(toks) = 1 /\ IsNumTok(toks[1]) THEN Ok(Num(NumOf(toks[1])))
  ELSE IF toks = <<"true">> THEN Ok(Bool(TRUE))
  ELSE IF toks = <<"false">> THEN Ok(Bool(FALSE))
  ELSE IF toks = <<"null">> THEN Ok(Null)
  ELSE IF /\ Len(toks) >= 2
          /\ toks[1] = Quote
          /\ toks[Len(toks)] = Quote
          /\ \A i \in 2 .. (Len(toks) - 1) : toks[i] # Quote
    THEN Ok(Str(SubSeq(toks, 2, Len(toks) - 1)))
  ELSE Err(io_error(<<"serde_json: invalid JSON">>))

\* Value::to_string: the canonical JSON text of a value
to_string(v) ==
  CASE v.t = "num" -> <<ToString(v.n)>>
    [] v.t = "bool" -> IF v.b THEN <<"true">> ELSE <<"false">>
    [] v.t = "str" -> <<Quote>> \o v.s \o <<Quote>>
    [] OTHER -> <<"null">>

\* the text a selector value is replaced by: a string's raw content, else
\* the value's JSON text
SubstText(v) == IF v.t = "str" THEN v.s ELSE to_string(v)

\* the process environment read by env::var
ProcEnv == [v \in {"HOME"} |-> <<"/root">>]

\* get_env_var: a selector of the form $VAR
get_env_var(selector, env) ==
  IF Len(selector) >= 1 /\ selector[1] = "$"
    THEN IF Len(selector) = 2 /\ selector[2] \in DOMAIN ProcEnv
           THEN [some |-> TRUE, val |-> Str(ProcEnv[selector[2]])]
           ELSE [some |-> TRUE, val |-> Str(<<>>)]
    ELSE [some |-> FALSE, val |-> Null]

\* Value::is_object for the root of the Environment: an object is a function
\* from its keys, any other value a record with the field t
IsObject(root) == "t" \notin DOMAIN root

\* the text of a selector: its tokens one after the other ("a" and "1" that
\* two substitutions left side by side are the key a1)
RECURSIVE JoinToks(_)
JoinToks(ts) == IF ts = <<>> THEN "" ELSE Head(ts) \o JoinToks(Tail(ts))

\* jq_rs::run on the Environment for the selector shapes the model uses:
\*   .key      .key +1      .key <2
\* jq adds null as the neutral element and orders null below every number
\* and every number below every string; indexing a root that is no object
\* with a key is an error ("Cannot index number with ...").
jq_run(selector, env) ==
  LET Apply(v, op) ==
        IF op = "" THEN Ok(v)
        ELSE IF op = "+1"
          THEN CASE v.t = "null" -> Ok(Num(1))
                 [] v.t = "num" -> Ok(Num(v.n + 1))
                 [] OTHER -> Err(io_error(<<"jq: error">>))
        ELSE CASE v.t = "null" -> Ok(Bool(TRUE))
               [] v.t = "num" -> Ok(Bool(v.n < 2))
               [] OTHER -> Ok(Bool(FALSE))
      Key(key, op) ==
        IF key \in DOMAIN env THEN Apply(env[key], op) ELSE Apply(Null, op)
      Path(n) ==
        IF n >= 3 /\ selector[n] \in {"+1", "<2"}
          THEN Key(JoinToks(SubSeq(selector, 2, n - 1)), selector[n])
          ELSE Key(JoinToks(SubSeq(selector, 2, n)), "")
  IN IF Len(selector) < 2 \/ selector[1] # "." THEN Err(io_error(<<"jq: error">>))
     ELSE IF ~IsObject(env) THEN Err(io_error(<<"jq: error">>))
     ELSE Path(Len(selector))

\* evaluate that returns whatever jq printed, null included (lib.rs 700-703
\* replaced by Ok(res_val))
evaluate_null(selector, env) ==
  LET Result(ev, res) == IF ev.some THEN Ok(ev.val) ELSE res
  IN Result(get_env_var(selector, env), jq_run(selector, env))

\* GlobalEnv::evaluate
evaluate(selector, env) ==
  LET Result(ev, res) ==
        IF ev.some THEN Ok(ev.val)
        ELSE IF ~res.ok THEN res
        ELSE IF res.val = Null
          THEN Err(io_error(<<"failed to get resource at ">> \o selector))
        ELSE res
  IN Result(get_env_var(selector, env), jq_run(selector, env))

\* the first j > i with s[j] a brace token, or 0
NextBrace(s, i) ==
  IF \E j \in (i + 1) .. Len(s) : s[j] \in BraceToks
    THEN CHOOSE j \in (i + 1) .. Len(s) :
           /\ s[j] \in BraceToks
           /\ \A m \in (i + 1) .. (j - 1) : s[m] \notin BraceToks
    ELSE 0

\* a match of the regex \{\{([^{}]+)\}\} starts at position i of s
SpanAt(s, i) ==
  /\ s[i] = "{{"
  /\ NextBrace(s, i) > i + 1
  /\ s[NextBrace(s, i)] = "}}"

\* Regex::is_match for \{\{([^{}]+)\}\}
HasSpan(s) == \E i \in 1 .. Len(s) : SpanAt(s, i)

\* Regex::replace_all with the closure of parse_selectors: every non-nested
\* span from position i on is replaced by its value; a failing span is
\* replaced by ERR and its message kept in err (the last failure wins)
\* replace_all whose closure does not record the failure of a span
\* (lib.rs 668-671 without replace_err = ...)
RECURSIVE ReplaceAll_quiet(_, _, _)
ReplaceAll_quiet(s, i, env) ==
  LET Replaced(r, rest) ==
        [rest EXCEPT !.toks = (IF r.ok THEN SubstText(r.val) ELSE <<"ERR">>) \o @]
      Span(j) ==
        Replaced(evaluate(SubSeq(s, i + 1, j - 1), env), ReplaceAll_quiet(s, j + 1, env))
      Kept(rest) == [rest EXCEPT !.toks = <<s[i]>> \o @]
  IN IF i > Len(s) THEN [toks |-> <<>>, failed |-> FALSE, err |-> EmptyText]
     ELSE IF SpanAt(s, i) THEN Span(NextBrace(s, i))
     ELSE Kept(ReplaceAll_quiet(s, i + 1, env))

RECURSIVE ReplaceAll(_, _, _)
ReplaceAll(s, i, env) ==
  LET Replaced(r, rest) ==
        IF r.ok
          THEN [rest EXCEPT !.toks = SubstText(r.val) \o @]
          ELSE [toks |-> <<"ERR">> \o rest.toks,
                failed |-> TRUE,
                err |-> IF rest.failed THEN rest.err ELSE r.err]
      Span(j) == Replaced(evaluate(SubSeq(s, i + 1, j - 1), env), ReplaceAll(s, j + 1, env))
      Kept(rest) == [rest EXCEPT !.toks = <<s[i]>> \o @]
  IN IF i > Len(s) THEN [toks |-> <<>>, failed |-> FALSE, err |-> EmptyText]
     ELSE IF SpanAt(s, i) THEN Span(NextBrace(s, i))
     ELSE Kept(ReplaceAll(s, i + 1, env))

\* parse_selectors, with the number of passes left; the source recurses
\* without a cap, a run that needs more passes than MaxPass is reported
\* as diverging
MaxPass == 4

\* parse_selectors that returns after its first pass (lib.rs 682-684 left out)
SelectorPasses_once(s, env, fuel) ==
  LET Pass(value) == IF value.failed THEN Err(value.err) ELSE Ok(value.toks)
  IN Pass(ReplaceAll(s, 1, env))

\* parse_selectors with a cap of two passes: the text of the second pass is
\* returned with the spans it still has
SelectorPasses_capped(s, env, fuel) ==
  LET Second(value) == IF value.failed THEN Err(value.err) ELSE Ok(value.toks)
      Pass(value) ==
        IF value.failed THEN Err(value.err)
        ELSE IF HasSpan(value.toks) THEN Second(ReplaceAll(value.toks, 1, env))
        ELSE Ok(value.toks)
  IN Pass(ReplaceAll(s, 1, env))

RECURSIVE SelectorPasses(_, _, _)
SelectorPasses(s, env, fuel) ==
  LET Pass(value) ==
        IF value.failed THEN Err(value.err)
        ELSE IF HasSpan(value.toks)
          THEN IF fuel = 0 THEN Err(io_error(<<"diverges">>))
               ELSE SelectorPasses(value.toks, env, fuel - 1)
        ELSE Ok(value.toks)
  IN Pass(ReplaceAll(s, 1, env))

\* GlobalEnv::parse_selectors
parse_selectors(s, env) == SelectorPasses(s, env, MaxPass)

\* set_var that makes the root the object of the one key given
set_var_only(var, val, g, write_ok) ==
  LET env2 == [k \in {var} |-> val]
  IN IF ~IsObject(g.env)
       THEN [ok |-> FALSE, g |-> g, err |-> io_error(<<"cannot modify environment">>)]
     ELSE IF write_ok
       THEN [ok |-> TRUE, g |-> [g EXCEPT !.env = env2, !.file = env2], err |-> EmptyText]
       ELSE [ok |-> FALSE, g |-> [g EXCEPT !.env = env2],
             err |-> io_error(<<"fs::write failed">>)]

\* GlobalEnv::set_var: insert into the root object, then write the file;
\* write_ok is whether fs::write succeeds
set_var(var, val, g, write_ok) ==
  LET env2 == [k \in DOMAIN g.env \cup {var} |-> IF k = var THEN val ELSE g.env[k]]
  IN IF ~IsObject(g.env)
       THEN [ok |-> FALSE, g |-> g, err |-> io_error(<<"cannot modify environment">>)]
     ELSE IF write_ok
       THEN [ok |-> TRUE, g |-> [g EXCEPT !.env = env2, !.file = env2], err |-> EmptyText]
       ELSE [ok |-> FALSE, g |-> [g EXCEPT !.env = env2],
             err |-> io_error(<<"fs::write failed">>)]

\* define_var that answers with the value as it was written, unsubstituted
define_var_raw(var_line, g, write_ok) ==
  LET Stored(value, stored) ==
        IF ~stored.ok
          THEN [ok |-> FALSE, g |-> stored.g, line |-> BlankLine, err |-> stored.err]
          ELSE [ok |-> TRUE, g |-> stored.g,
                line |-> AssignLine(var_line.name, var_line.val), err |-> EmptyText]
      Parsed(value, value_json) ==
        IF ~value_json.ok
          THEN [ok |-> FALSE, g |-> g, line |-> BlankLine, err |-> value_json.err]
          ELSE Stored(value, set_var(var_line.name, value_json.val, g, write_ok))
      Substituted(value) ==
        IF ~value.ok THEN [ok |-> FALSE, g |-> g, line |-> BlankLine, err |-> value.err]
        ELSE Parsed(value, from_str(value.val))
  IN IF var_line.k # "assign" \/ var_line.val = <<>>
       THEN [ok |-> FALSE, g |-> g, line |-> BlankLine,
             err |-> io_error(<<"cannot parse line: ", "@", var_line.name>>)]
       ELSE Substituted(parse_selectors(var_line.val, g.env))

\* GlobalEnv::define_var on a line beginning with '@'.  The regex
\* @([^ ]+)\s*=\s*(.+) takes the name and the value wherever the '=' stands
\* between them; the line returned is written with " = " (lib.rs 641).
define_var(var_line, g, write_ok) ==
  LET Stored(value, stored) ==
        IF ~stored.ok
          THEN [ok |-> FALSE, g |-> stored.g, line |-> BlankLine, err |-> stored.err]
          ELSE [ok |-> TRUE, g |-> stored.g,
                line |-> AssignLine(var_line.name, value.val), err |-> EmptyText]
      Parsed(value, value_json) ==
        IF ~value_json.ok
          THEN [ok |-> FALSE, g |-> g, line |-> BlankLine, err |-> value_json.err]
          ELSE Stored(value, set_var(var_line.name, value_json.val, g, write_ok))
      Substituted(value) ==
        IF ~value.ok THEN [ok |-> FALSE, g |-> g, line |-> BlankLine, err |-> value.err]
        ELSE Parsed(value, from_str(value.val))
  IN IF var_line.k # "assign" \/ var_line.val = <<>>
       THEN [ok |-> FALSE, g |-> g, line |-> BlankLine,
             err |-> io_error(<<"cannot parse line: ", "@", var_line.name>>)]
       ELSE Substituted(parse_selectors(var_line.val, g.env))


(***************************************************************************)
(* Request::make_request.  io is what the outside world answers during one *)
(* step: io.curl is the outcome of the curl process (ok, stdout, stderr),   *)
(* io.write_ok whether fs::write of the env file succeeds.                  *)
(***************************************************************************)
\* Method::get_match followed by Method::to_string: the known verbs are
\* matched case-insensitively, any other verb is upper-cased
MethodString(m) ==
  CASE m = <<"get">> -> <<"GET">>
    [] m = <<"post">> -> <<"POST">>
    [] OTHER -> m

\* handle_basic_auth: ^(Authorization:\s+Basic\s+)([^:]+:[^:]+)$
handle_basic_auth(header) ==
  IF Len(header) = 2 /\ header[1] = "Authorization: Basic " /\ header[2] = "user:pass"
    THEN <<header[1], "base64(", header[2], ")">>
    ELSE header

\* the results of parse_selectors over a list of templates
SubAll(list, env) == [i \in 1 .. Len(list) |-> parse_selectors(list[i], env)]

\* the message of the last failing template of a list, as header_err keeps it
LastErr(subs) ==
  subs[CHOOSE i \in 1 .. Len(subs) :
         ~subs[i].ok /\ \A j \in (i + 1) .. Len(subs) : subs[j].ok].err

\* a split at the last empty line of the raw response (rsplit_once in place
\* of split_once at lib.rs 165)
SplitAt_last(raw) ==
  IF \E j \in 1 .. (Len(raw.lines) - 1) : raw.lines[j + 1] = BlankLine
    THEN CHOOSE j \in 1 .. (Len(raw.lines) - 1) :
           /\ raw.lines[j + 1] = BlankLine
           /\ \A m \in (j + 1) .. (Len(raw.lines) - 1) : raw.lines[m + 1] # BlankLine
    ELSE 0

\* str::split_once("\n\n") on the raw response: the index of the first line
\* that is followed by an empty line, or 0
SplitAt(raw) ==
  IF \E j \in 1 .. (Len(raw.lines) - 1) : raw.lines[j + 1] = BlankLine
    THEN CHOOSE j \in 1 .. (Len(raw.lines) - 1) :
           /\ raw.lines[j + 1] = BlankLine
           /\ \A m \in 1 .. (j - 1) : raw.lines[m + 1] # BlankLine
    ELSE 0

\* the part of a text before / after the split
HeadersOf(raw) == [lines |-> SubSeq(raw.lines, 1, SplitAt(raw)), open |-> TRUE]

BodyOf(raw) ==
  LET ls == SubSeq(raw.lines, SplitAt(raw) + 2, Len(raw.lines))
  IN IF ls = <<>> THEN EmptyText ELSE [lines |-> ls, open |-> raw.open]

\* serde_json::from_str on a response body: a value on one line, the
\* whitespace before it skipped
BodyJson(body) ==
  LET RECURSIVE Trim(_)
      Trim(toks) == IF toks # <<>> /\ Head(toks) = " " THEN Trim(Tail(toks)) ELSE toks
  IN IF Len(body.lines) = 1 /\ body.lines[1].k = "text"
       THEN from_str(Trim(body.lines[1].toks))
       ELSE Err(io_error(<<"serde_json: invalid JSON">>))

\* the characters of a string as tokens: the tokens of its lines, "\n"
\* after every line that is terminated
RECURSIVE StrOf(_)
StrOf(t) ==
  LET Toks(l) == IF l.k = "text" THEN l.toks ELSE IF l = BlankLine THEN <<>> ELSE <<"?">>
  IN IF t.lines = <<>> THEN <<>>
     ELSE Toks(Head(t.lines))
          \o (IF Len(t.lines) = 1 /\ t.open THEN <<>> ELSE <<"\n">>)
          \o StrOf([lines |-> Tail(t.lines), open |-> t.open])

\* format!("{}\n\n{}", headers, resp)
HeadersAndBody(headers, resp) == PushStr(PushNL(PushNL(headers)), resp)

\* the joined arguments of the curl command line, for debug mode
RECURSIVE JoinArgs(_)
JoinArgs(args) ==
  IF args = <<>> THEN <<>>
  ELSE IF Len(args) = 1 THEN args[1]
  ELSE args[1] \o <<" ">> \o JoinArgs(Tail(args))

RECURSIVE FlagPairs(_, _)
FlagPairs(flag, list) ==
  IF list = <<>> THEN <<>>
  ELSE <<<<flag>>, list[1]>> \o FlagPairs(flag, Tail(list))

\* the classification of the raw response (stdout out, stderr err) into
\* Response::NoSplit, NonJson or Json, and Response::get_return
Classify(out, err, is_verbose) ==
  LET Return(hdr, resp, js) ==
        IF js.ok
          THEN [ok |-> TRUE,
                text |-> HeadersAndBody(hdr, LineStr(TextLine(to_string(js.val)))),
                val |-> js.val, err |-> EmptyText]
          ELSE [ok |-> TRUE, text |-> HeadersAndBody(hdr, resp),
                val |-> Str(StrOf(resp)),
                err |-> EmptyText]
  IN IF is_verbose THEN Return(err, out, BodyJson(out))
     ELSE IF SplitAt(out) = 0
       THEN [ok |-> TRUE, text |-> out, val |-> Str(<<>>), err |-> EmptyText]
     ELSE Return(HeadersOf(out), BodyOf(out), BodyJson(BodyOf(out)))

\* make_request whose debug mode gives way to verbose ("if is_debug &&
\* !is_verbose" at lib.rs 134)
Request_make_request_running(req, g, is_debug, is_verbose, io) ==
  LET Failed(e) == [ok |-> FALSE, text |-> EmptyText, val |-> Null, err |-> e]
      Call(args) ==
        IF is_debug /\ ~is_verbose
          THEN [ok |-> TRUE, text |-> LineStr(TextLine(JoinArgs(<< <<"curl">> >> \o args))),
                val |-> Str(<<>>), err |-> EmptyText]
        ELSE IF ~io.curl.ok THEN Failed(io.curl.err)
        ELSE Classify(io.curl.out, io.curl.err, is_verbose)
      Build(url, hs, fs, data) ==
        IF ~url.ok THEN Failed(url.err)
        ELSE IF \E i \in 1 .. Len(fs) : ~fs[i].ok THEN Failed(LastErr(fs))
        ELSE IF \E i \in 1 .. Len(hs) : ~hs[i].ok THEN Failed(LastErr(hs))
        ELSE IF req.has_data /\ ~data.ok THEN Failed(data.err)
        ELSE Call(<< <<"-k">>, IF is_verbose THEN <<"-v">> ELSE <<"--include">>,
                     url.val, <<"-X">>, MethodString(req.method) >>
                  \o FlagPairs("-H", [i \in 1 .. Len(hs) |-> handle_basic_auth(hs[i].val)])
                  \o (IF req.has_data THEN << <<"-d">>, data.val >> ELSE <<>>)
                  \o FlagPairs("-F", [i \in 1 .. Len(fs) |-> fs[i].val]))
  IN Build(parse_selectors(req.url, g.env), SubAll(req.headers, g.env),
           SubAll(req.multipart_forms, g.env), parse_selectors(req.data, g.env))

\* Request::make_request: (response text, response value) or an error
Request_make_request(req, g, is_debug, is_verbose, io) ==
  LET Failed(e) == [ok |-> FALSE, text |-> EmptyText, val |-> Null, err |-> e]
      Call(args) ==
        IF is_debug
          THEN [ok |-> TRUE, text |-> LineStr(TextLine(JoinArgs(<< <<"curl">> >> \o args))),
                val |-> Str(<<>>), err |-> EmptyText]
        ELSE IF ~io.curl.ok THEN Failed(io.curl.err)
        ELSE Classify(io.curl.out, io.curl.err, is_verbose)
      Build(url, hs, fs, data) ==
        IF ~url.ok THEN Failed(url.err)
        ELSE IF \E i \in 1 .. Len(fs) : ~fs[i].ok THEN Failed(LastErr(fs))
        ELSE IF \E i \in 1 .. Len(hs) : ~hs[i].ok THEN Failed(LastErr(hs))
        ELSE IF req.has_data /\ ~data.ok THEN Failed(data.err)
        ELSE Call(<< <<"-k">>, IF is_verbose THEN <<"-v">> ELSE <<"--include">>,
                     url.val, <<"-X">>, MethodString(req.method) >>
                  \o FlagPairs("-H", [i \in 1 .. Len(hs) |-> handle_basic_auth(hs[i].val)])
                  \o (IF req.has_data THEN << <<"-d">>, data.val >> ELSE <<>>)
                  \o FlagPairs("-F", [i \in 1 .. Len(fs) |-> fs[i].val]))
  IN Build(parse_selectors(req.url, g.env), SubAll(req.headers, g.env),
           SubAll(req.multipart_forms, g.env), parse_selectors(req.data, g.env))

(***************************************************************************)
(* FoldEnv: the variables of one fold.  parent_fold is <<>> (None) or the  *)
(* one-element sequence holding the suspended parent (Some(Box)).  issued  *)
(* is a history field: how often the fold's request has been issued.       *)
(***************************************************************************)
FoldEnv_new ==
  [ret |-> EmptyText, output |-> EmptyText, title |-> NoTitle,
   start_marker |-> BlankLine, end_marker |-> BlankLine,
   error |-> FALSE, first_line |-> TRUE, old_output_started |-> FALSE,
   compiled |-> FALSE, parent_fold |-> <<>>,
   request_started |-> FALSE, request_body_started |-> FALSE,
   response_variable |-> "", made_request |-> FALSE,
   method |-> <<"GET">>, url |-> <<>>, headers |-> <<>>,
   multipart_forms |-> <<>>, request_body |-> <<>>,
   is_debug |-> FALSE, is_verbose |-> FALSE,
   issued |-> 0]

Status(error) == IF error THEN "ERROR" ELSE "SUCCESS"

ResultWord(error) == IF error THEN "ERROR" ELSE "RESULT"

\* the end marker written: the literal one, or "###}" if none was captured
EndMarkerOf(f) == IF f.end_marker = BlankLine THEN EndLine("") ELSE f.end_marker

\* compile_return without self.compiled = true (lib.rs 246)
compile_return_again(f) ==
  LET Compiled(ret, output) ==
        [f |-> [f EXCEPT !.output = output],
         out |-> PushStr(ret, output)]
  IN IF ~f.compiled /\ ~IsEmpty(f.ret)
       THEN Compiled(
              PushStr(insert_newline(PushStr(
                        LineNL(WithExecuted(f.start_marker, Status(f.error))), f.ret)),
                      LineNL(DividerLine(f.title, ResultWord(f.error)))),
              PushLine(insert_newline(f.output), EndMarkerOf(f)))
       ELSE [f |-> f, out |-> EmptyText]

\* FoldEnv::compile_return: the fold after the call and the string returned
compile_return(f) ==
  LET Compiled(ret, output) ==
        [f |-> [f EXCEPT !.compiled = TRUE, !.output = output],
         out |-> PushStr(ret, output)]
  IN IF ~f.compiled /\ ~IsEmpty(f.ret)
       THEN Compiled(
              PushStr(insert_newline(PushStr(
                        LineNL(WithExecuted(f.start_marker, Status(f.error))), f.ret)),
                      LineNL(DividerLine(f.title, ResultWord(f.error)))),
              PushLine(insert_newline(f.output), EndMarkerOf(f)))
       ELSE [f |-> f, out |-> EmptyText]

\* compile_for_parent that heads the block with the top-level divider
\* "########## <title>RESULT|ERROR" (lib.rs 252-254 in place of 287-289)
compile_for_parent_divider(f) ==
  LET Compiled(ret, sep, output) ==
        [f |-> [f EXCEPT !.compiled = TRUE, !.output = output],
         ret |-> ret,
         out |-> PushStr(PushStr(PushStr(sep,
                     LineNL(DividerLine(f.title, ResultWord(f.error)))),
                   output),
                   LineNL(HashLine("subend", <<>>, NoTitle, "")))]
  IN IF ~f.compiled /\ f.parent_fold # <<>>
       THEN Compiled(
              PushNL(PushLine(PushStr(
                       LineNL(WithExecuted(f.start_marker, Status(f.error))), f.ret),
                     EndMarkerOf(f))),
              IF f.parent_fold[1].output.open THEN PushNL(EmptyText) ELSE EmptyText,
              insert_newline(f.output))
       ELSE [f |-> f, ret |-> EmptyText, out |-> EmptyText]

\* FoldEnv::compile_for_parent: the fold after the call, the string for the
\* parent's raw input and the string for the parent's output
compile_for_parent(f) ==
  LET Compiled(ret, sep, output) ==
        [f |-> [f EXCEPT !.compiled = TRUE, !.output = output],
         ret |-> ret,
         out |-> PushStr(PushStr(PushStr(sep,
                     LineNL(HashLine("subhdr", <<>>, f.title, ResultWord(f.error)))),
                   output),
                   LineNL(HashLine("subend", <<>>, NoTitle, "")))]
  IN IF ~f.compiled /\ f.parent_fold # <<>>
       THEN Compiled(
              PushNL(PushLine(PushStr(
                       LineNL(WithExecuted(f.start_marker, Status(f.error))), f.ret),
                     EndMarkerOf(f))),
              IF f.parent_fold[1].output.open THEN PushNL(EmptyText) ELSE EmptyText,
              insert_newline(f.output))
       ELSE [f |-> f, ret |-> EmptyText, out |-> EmptyText]

\* FoldEnv::make_request without self.made_request = true (lib.rs 317)
FoldEnv_make_request_forgetting(f, g, io) ==
  LET Failed(f1, g1, e) ==
        [f |-> [f1 EXCEPT !.error = TRUE, !.output = PushNL(PushStr(@, e))], g |-> g1]
      Captured(f1, res, stored) ==
        IF ~stored.ok THEN Failed(f1, stored.g, stored.err)
        ELSE [f |-> [f1 EXCEPT !.output = PushStr(@, res.text)], g |-> stored.g]
      Answered(f1, res) ==
        IF ~res.ok THEN Failed(f1, g, res.err)
        ELSE IF f.response_variable # ""
          THEN Captured(f1, res, set_var(f.response_variable, res.val, g, io.write_ok))
        ELSE [f |-> [f1 EXCEPT !.output = PushStr(@, res.text)], g |-> g]
  IN IF f.request_started /\ ~f.error
       THEN Answered([f EXCEPT !.issued = @ + 1],
                     Request_make_request(
                       [method |-> f.method, url |-> f.url, headers |-> f.headers,
                        multipart_forms |-> f.multipart_forms,
                        has_data |-> f.request_body_started, data |-> f.request_body],
                       g, f.is_debug, f.is_verbose, io))
       ELSE [f |-> f, g |-> g]

\* FoldEnv::make_request that pushes the response text before it stores the
\* value (lib.rs 326 before 320-325)
FoldEnv_make_request_appending(f, g, io) ==
  LET Failed(f1, g1, e) ==
        [f |-> [f1 EXCEPT !.error = TRUE, !.output = PushNL(PushStr(@, e))], g |-> g1]
      Captured(f1, res, stored) ==
        IF ~stored.ok
          THEN Failed([f1 EXCEPT !.output = PushStr(@, res.text)], stored.g, stored.err)
        ELSE [f |-> [f1 EXCEPT !.output = PushStr(@, res.text)], g |-> stored.g]
      Answered(f1, res) ==
        IF ~res.ok THEN Failed(f1, g, res.err)
        ELSE IF f.response_variable # ""
          THEN Captured(f1, res, set_var(f.response_variable, res.val, g, io.write_ok))
        ELSE [f |-> [f1 EXCEPT !.output = PushStr(@, res.text)], g |-> g]
  IN IF f.request_started /\ ~f.error
       THEN Answered([f EXCEPT !.made_request = TRUE, !.issued = @ + 1],
                     Request_make_request(
                       [method |-> f.method, url |-> f.url, headers |-> f.headers,
                        multipart_forms |-> f.multipart_forms,
                        has_data |-> f.request_body_started, data |-> f.request_body],
                       g, f.is_debug, f.is_verbose, io))
       ELSE [f |-> f, g |-> g]

\* FoldEnv::make_request: builds and makes the request if appropriate; the
\* fold and the global environment after the call
FoldEnv_make_request(f, g, io) ==
  LET Failed(f1, g1, e) ==
        [f |-> [f1 EXCEPT !.error = TRUE, !.output = PushNL(PushStr(@, e))], g |-> g1]
      Captured(f1, res, stored) ==
        IF ~stored.ok THEN Failed(f1, stored.g, stored.err)
        ELSE [f |-> [f1 EXCEPT !.output = PushStr(@, res.text)], g |-> stored.g]
      Answered(f1, res) ==
        IF ~res.ok THEN Failed(f1, g, res.err)
        ELSE IF f.response_variable # ""
          THEN Captured(f1, res, set_var(f.response_variable, res.val, g, io.write_ok))
        ELSE [f |-> [f1 EXCEPT !.output = PushStr(@, res.text)], g |-> g]
  IN IF f.request_started /\ ~f.error
       THEN Answered([f EXCEPT !.made_request = TRUE, !.issued = @ + 1],
                     Request_make_request(
                       [method |-> f.method, url |-> f.url, headers |-> f.headers,
                        multipart_forms |-> f.multipart_forms,
                        has_data |-> f.request_body_started, data |-> f.request_body],
                       g, f.is_debug, f.is_verbose, io))
       ELSE [f |-> f, g |-> g]

\* FoldEnv::parse_flags on a line beginning with '#'
parse_flags(f, line) ==
  CASE line.k = "hash" /\ line.flag = "name" /\ line.arg # <<>> ->
         [f EXCEPT !.response_variable = line.arg[1]]
    [] line.k = "hash" /\ line.flag = "form" ->
         [f EXCEPT !.multipart_forms = Append(@, line.arg)]
    [] line.k = "hash" /\ line.flag = "debug" -> [f EXCEPT !.is_debug = TRUE]
    [] line.k = "hash" /\ line.flag = "verbose" -> [f EXCEPT !.is_verbose = TRUE]
    [] OTHER -> f


(***************************************************************************)
(* GlobalEnv::parse_input.  P is the state of one call: the local          *)
(* variables ret, fold_env, fold_started and first_while, and the global   *)
(* environment g (g.env in memory, g.file the persisted env file, g.log   *)
(* the history of the results of define_var).  The input is a valid UTF-8  *)
(* stream, so read_line never fails; every line is already trimmed at its  *)
(* end.                                                                    *)
(***************************************************************************)
ParseState_new(g) ==
  [ret |-> EmptyText, fold_env |-> FoldEnv_new, fold_started |-> FALSE,
   first_while |-> TRUE, g |-> g, last_closed |-> <<>>, last_while |-> <<>>]

\* the tokens of a line used as a header or body line
LineToks(line) == IF line.k = "text" THEN line.toks ELSE <<"?">>

\* str::split_once(' ') on a request line: the position of the first space
SpaceAt(toks) ==
  IF \E i \in 1 .. Len(toks) : toks[i] = " "
    THEN CHOOSE i \in 1 .. Len(toks) :
           toks[i] = " " /\ \A j \in 1 .. (i - 1) : toks[j] # " "
    ELSE 0

\* OpenFold whose nested fold starts with the error flag of its parent
OpenFold_inheriting(P, line, io) ==
  LET Titled(fresh, title) ==
        [fresh EXCEPT !.title = IF title # NoTitle THEN title ELSE @,
                      !.start_marker = StripExecuted(line),
                      !.first_line = FALSE]
      Nested(req) ==
        [P EXCEPT !.fold_env = Titled([FoldEnv_new EXCEPT !.parent_fold = <<req.f>>,
                                                          !.error = req.f.error],
                                      TitleOf(LineHead(line))),
                  !.g = req.g]
  IN IF ~P.fold_started
       THEN [P EXCEPT !.ret = IF ~IsEmpty(@) THEN PushNL(@) ELSE @,
                      !.fold_started = TRUE,
                      !.fold_env = Titled(FoldEnv_new, TitleOf(LineHead(line)))]
     ELSE IF ~P.fold_env.made_request
       THEN Nested(FoldEnv_make_request(P.fold_env, P.g, io))
     ELSE Nested([f |-> P.fold_env, g |-> P.g])

\* OpenFold whose nested fold replaces the current fold instead of
\* suspending it
OpenFold_flat(P, line, io) ==
  LET Titled(fresh, title) ==
        [fresh EXCEPT !.title = IF title # NoTitle THEN title ELSE @,
                      !.start_marker = StripExecuted(line),
                      !.first_line = FALSE]
      Nested(req) ==
        [P EXCEPT !.fold_env = Titled(FoldEnv_new, TitleOf(LineHead(line))),
                  !.g = req.g]
  IN IF ~P.fold_started
       THEN [P EXCEPT !.ret = IF ~IsEmpty(@) THEN PushNL(@) ELSE @,
                      !.fold_started = TRUE,
                      !.fold_env = Titled(FoldEnv_new, TitleOf(LineHead(line)))]
     ELSE IF ~P.fold_env.made_request
       THEN Nested(FoldEnv_make_request(P.fold_env, P.g, io))
     ELSE Nested([f |-> P.fold_env, g |-> P.g])

\* OpenFold that takes the error flag of the fold from the status of the
\* start marker read (lib.rs 511-521)
OpenFold_trusting(P, line, io) ==
  LET Titled(fresh, title) ==
        [fresh EXCEPT !.title = IF title # NoTitle THEN title ELSE @,
                      !.start_marker = StripExecuted(line),
                      !.error = LineHead(line).suf = "ERROR",
                      !.first_line = FALSE]
      Nested(req) ==
        [P EXCEPT !.fold_env = Titled([FoldEnv_new EXCEPT !.parent_fold = <<req.f>>],
                                      TitleOf(LineHead(line))),
                  !.g = req.g]
  IN IF ~P.fold_started
       THEN [P EXCEPT !.ret = IF ~IsEmpty(@) THEN PushNL(@) ELSE @,
                      !.fold_started = TRUE,
                      !.fold_env = Titled(FoldEnv_new, TitleOf(LineHead(line)))]
     ELSE IF ~P.fold_env.made_request
       THEN Nested(FoldEnv_make_request(P.fold_env, P.g, io))
     ELSE Nested([f |-> P.fold_env, g |-> P.g])

\* lib.rs 493-523: a line matching start_fold_re opens a fold
OpenFold(P, line, io) ==
  LET Titled(fresh, title) ==
        [fresh EXCEPT !.title = IF title # NoTitle THEN title ELSE @,
                      !.start_marker = StripExecuted(line),
                      !.first_line = FALSE]
      Nested(req) ==
        [P EXCEPT !.fold_env = Titled([FoldEnv_new EXCEPT !.parent_fold = <<req.f>>],
                                      TitleOf(LineHead(line))),
                  !.g = req.g]
  IN IF ~P.fold_started
       THEN [P EXCEPT !.ret = IF ~IsEmpty(@) THEN PushNL(@) ELSE @,
                      !.fold_started = TRUE,
                      !.fold_env = Titled(FoldEnv_new, TitleOf(LineHead(line)))]
     ELSE IF ~P.fold_env.made_request
       THEN Nested(FoldEnv_make_request(P.fold_env, P.g, io))
     ELSE Nested([f |-> P.fold_env, g |-> P.g])

\* CloseFold that hands the request state of the child to the parent
CloseFold_leaking(P, line, io) ==
  LET IntoParent(f, g, nest) ==
        [P EXCEPT !.g = g,
                  !.fold_env = [f.parent_fold[1] EXCEPT !.ret = PushStr(@, nest.ret),
                                                       !.output = PushStr(@, nest.out),
                                                       !.error = f.error \/ @,
                                                       !.made_request = f.made_request,
                                                       !.request_started = f.request_started],
                  !.last_closed = <<nest.f>>]
      IntoRet(g, top) ==
        [P EXCEPT !.g = g,
                  !.ret = PushStr(@, top.out),
                  !.fold_env = top.f,
                  !.fold_started = FALSE,
                  !.last_closed = <<top.f>>]
      Requested(req) ==
        IF req.f.parent_fold # <<>>
          THEN IntoParent(req.f, req.g, compile_for_parent(req.f))
          ELSE IntoRet(req.g, compile_return(req.f))
      Marked(f0) ==
        IF ~f0.made_request THEN Requested(FoldEnv_make_request(f0, P.g, io))
        ELSE Requested([f |-> f0, g |-> P.g])
  IN Marked([P.fold_env EXCEPT !.end_marker = line])

\* CloseFold that leaves the error flag of the parent as it was (lib.rs 550-553)
CloseFold_keeping(P, line, io) ==
  LET IntoParent(f, g, nest) ==
        [P EXCEPT !.g = g,
                  !.fold_env = [f.parent_fold[1] EXCEPT !.ret = PushStr(@, nest.ret),
                                                       !.output = PushStr(@, nest.out)],
                  !.last_closed = <<nest.f>>]
      IntoRet(g, top) ==
        [P EXCEPT !.g = g,
                  !.ret = PushStr(@, top.out),
                  !.fold_env = top.f,
                  !.fold_started = FALSE,
                  !.last_closed = <<top.f>>]
      Requested(req) ==
        IF req.f.parent_fold # <<>>
          THEN IntoParent(req.f, req.g, compile_for_parent(req.f))
          ELSE IntoRet(req.g, compile_return(req.f))
      Marked(f0) ==
        IF ~f0.made_request THEN Requested(FoldEnv_make_request(f0, P.g, io))
        ELSE Requested([f |-> f0, g |-> P.g])
  IN Marked([P.fold_env EXCEPT !.end_marker = line])

\* lib.rs 541-559: a line starting with "###}" closes the current fold
CloseFold(P, line, io) ==
  LET IntoParent(f, g, nest) ==
        [P EXCEPT !.g = g,
                  !.fold_env = [f.parent_fold[1] EXCEPT !.ret = PushStr(@, nest.ret),
                                                       !.output = PushStr(@, nest.out),
                                                       !.error = f.error \/ @],
                  !.last_closed = <<nest.f>>]
      IntoRet(g, top) ==
        [P EXCEPT !.g = g,
                  !.ret = PushStr(@, top.out),
                  !.fold_env = top.f,
                  !.fold_started = FALSE,
                  !.last_closed = <<top.f>>]
      Requested(req) ==
        IF req.f.parent_fold # <<>>
          THEN IntoParent(req.f, req.g, compile_for_parent(req.f))
          ELSE IntoRet(req.g, compile_return(req.f))
      Marked(f0) ==
        IF ~f0.made_request THEN Requested(FoldEnv_make_request(f0, P.g, io))
        ELSE Requested([f |-> f0, g |-> P.g])
  IN Marked([P.fold_env EXCEPT !.end_marker = line])

\* Interpret that substitutes the URL when the request line is read
\* (parse_selectors on url_str at lib.rs 598)
Interpret_eager(f, g, line, io) ==
  LET Defined(dv) ==
        [f |-> [f EXCEPT !.error = IF dv.ok THEN @ ELSE TRUE,
                         !.output = PushStr(insert_newline(@),
                                      IF dv.ok THEN LineNL(dv.line)
                                      ELSE PushNL(dv.err))],
         g |-> [dv.g EXCEPT !.log = Append(@, [ok |-> dv.ok, line |-> dv.line])]]
      FirstLine(toks, sp) ==
        IF sp = 0
          THEN [f EXCEPT !.error = TRUE,
                         !.output = PushStr(insert_newline(@),
                                      LineNL(TextLine(<<"Could not parse line: ">>
                                                      \o toks))),
                         !.request_started = TRUE]
          ELSE [f EXCEPT !.made_request = FALSE,
                         !.method = MethodString(SubSeq(toks, 1, sp - 1)),
                         !.url = IF parse_selectors(SubSeq(toks, sp + 1, Len(toks)), g.env).ok
                                   THEN parse_selectors(SubSeq(toks, sp + 1, Len(toks)),
                                                        g.env).val
                                   ELSE SubSeq(toks, sp + 1, Len(toks)),
                         !.request_started = TRUE]
      Role(k) ==
        IF k = "assign" THEN Defined(define_var(line, g, io.write_ok))
        ELSE IF k \in {"hash", "start", "end", "divider"}
          THEN [f |-> parse_flags(f, line), g |-> g]
        ELSE IF ~f.request_started /\ line = BlankLine
          THEN [f |-> [f EXCEPT !.output = PushNL(@)], g |-> g]
        ELSE IF ~f.request_started
          THEN [f |-> FirstLine(LineToks(line), SpaceAt(LineToks(line))), g |-> g]
        ELSE IF ~f.request_body_started /\ line # BlankLine
          THEN [f |-> [f EXCEPT !.headers = Append(@, LineToks(line))], g |-> g]
        ELSE IF ~f.request_body_started
          THEN [f |-> [f EXCEPT !.request_body_started = TRUE], g |-> g]
        ELSE [f |-> [f EXCEPT !.request_body =
                                @ \o (IF line = BlankLine THEN <<>> ELSE LineToks(line))],
              g |-> g]
  IN Role(LineHead(line).k)

\* Interpret that puts a line of the body before the lines read so far
\* (insert_str(0, ..) in place of push_str at lib.rs 611)
Interpret_prepending(f, g, line, io) ==
  LET Defined(dv) ==
        [f |-> [f EXCEPT !.error = IF dv.ok THEN @ ELSE TRUE,
                         !.output = PushStr(insert_newline(@),
                                      IF dv.ok THEN LineNL(dv.line)
                                      ELSE PushNL(dv.err))],
         g |-> [dv.g EXCEPT !.log = Append(@, [ok |-> dv.ok, line |-> dv.line])]]
      FirstLine(toks, sp) ==
        IF sp = 0
          THEN [f EXCEPT !.error = TRUE,
                         !.output = PushStr(insert_newline(@),
                                      LineNL(TextLine(<<"Could not parse line: ">>
                                                      \o toks))),
                         !.request_started = TRUE]
          ELSE [f EXCEPT !.made_request = FALSE,
                         !.method = MethodString(SubSeq(toks, 1, sp - 1)),
                         !.url = SubSeq(toks, sp + 1, Len(toks)),
                         !.request_started = TRUE]
      Role(k) ==
        IF k = "assign" THEN Defined(define_var(line, g, io.write_ok))
        ELSE IF k \in {"hash", "start", "end", "divider"}
          THEN [f |-> parse_flags(f, line), g |-> g]
        ELSE IF ~f.request_started /\ line = BlankLine
          THEN [f |-> [f EXCEPT !.output = PushNL(@)], g |-> g]
        ELSE IF ~f.request_started
          THEN [f |-> FirstLine(LineToks(line), SpaceAt(LineToks(line))), g |-> g]
        ELSE IF ~f.request_body_started /\ line # BlankLine
          THEN [f |-> [f EXCEPT !.headers = Append(@, LineToks(line))], g |-> g]
        ELSE IF ~f.request_body_started
          THEN [f |-> [f EXCEPT !.request_body_started = TRUE], g |-> g]
        ELSE [f |-> [f EXCEPT !.request_body =
                                (IF line = BlankLine THEN <<>> ELSE LineToks(line)) \o @],
              g |-> g]
  IN Role(LineHead(line).k)

\* Interpret that leaves the error flag alone when the request line has no
\* space (lib.rs 593)
Interpret_lenient(f, g, line, io) ==
  LET Defined(dv) ==
        [f |-> [f EXCEPT !.error = IF dv.ok THEN @ ELSE TRUE,
                         !.output = PushStr(insert_newline(@),
                                      IF dv.ok THEN LineNL(dv.line)
                                      ELSE PushNL(dv.err))],
         g |-> [dv.g EXCEPT !.log = Append(@, [ok |-> dv.ok, line |-> dv.line])]]
      FirstLine(toks, sp) ==
        IF sp = 0
          THEN [f EXCEPT !.output = PushStr(insert_newline(@),
                                      LineNL(TextLine(<<"Could not parse line: ">>
                                                      \o toks))),
                         !.request_started = TRUE]
          ELSE [f EXCEPT !.made_request = FALSE,
                         !.method = MethodString(SubSeq(toks, 1, sp - 1)),
                         !.url = SubSeq(toks, sp + 1, Len(toks)),
                         !.request_started = TRUE]
      Role(k) ==
        IF k = "assign" THEN Defined(define_var(line, g, io.write_ok))
        ELSE IF k \in {"hash", "start", "end", "divider"}
          THEN [f |-> parse_flags(f, line), g |-> g]
        ELSE IF ~f.request_started /\ line = BlankLine
          THEN [f |-> [f EXCEPT !.output = PushNL(@)], g |-> g]
        ELSE IF ~f.request_started
          THEN [f |-> FirstLine(LineToks(line), SpaceAt(LineToks(line))), g |-> g]
        ELSE IF ~f.request_body_started /\ line # BlankLine
          THEN [f |-> [f EXCEPT !.headers = Append(@, LineToks(line))], g |-> g]
        ELSE IF ~f.request_body_started
          THEN [f |-> [f EXCEPT !.request_body_started = TRUE], g |-> g]
        ELSE [f |-> [f EXCEPT !.request_body =
                                @ \o (IF line = BlankLine THEN <<>> ELSE LineToks(line))],
              g |-> g]
  IN Role(LineHead(line).k)

\* lib.rs 569-612: the role of a body line of a fold without error
Interpret(f, g, line, io) ==
  LET Defined(dv) ==
        [f |-> [f EXCEPT !.error = IF dv.ok THEN @ ELSE TRUE,
                         !.output = PushStr(insert_newline(@),
                                      IF dv.ok THEN LineNL(dv.line)
                                      ELSE PushNL(dv.err))],
         g |-> [dv.g EXCEPT !.log = Append(@, [ok |-> dv.ok, line |-> dv.line])]]
      FirstLine(toks, sp) ==
        IF sp = 0
          THEN [f EXCEPT !.error = TRUE,
                         !.output = PushStr(insert_newline(@),
                                      LineNL(TextLine(<<"Could not parse line: ">>
                                                      \o toks))),
                         !.request_started = TRUE]
          ELSE [f EXCEPT !.made_request = FALSE,
                         !.method = MethodString(SubSeq(toks, 1, sp - 1)),
                         !.url = SubSeq(toks, sp + 1, Len(toks)),
                         !.request_started = TRUE]
      Role(k) ==
        IF k = "assign" THEN Defined(define_var(line, g, io.write_ok))
        ELSE IF k \in {"hash", "start", "end", "divider"}
          THEN [f |-> parse_flags(f, line), g |-> g]
        ELSE IF ~f.request_started /\ line = BlankLine
          THEN [f |-> [f EXCEPT !.output = PushNL(@)], g |-> g]
        ELSE IF ~f.request_started
          THEN [f |-> FirstLine(LineToks(line), SpaceAt(LineToks(line))), g |-> g]
        ELSE IF ~f.request_body_started /\ line # BlankLine
          THEN [f |-> [f EXCEPT !.headers = Append(@, LineToks(line))], g |-> g]
        ELSE IF ~f.request_body_started
          THEN [f |-> [f EXCEPT !.request_body_started = TRUE], g |-> g]
        ELSE [f |-> [f EXCEPT !.request_body =
                                @ \o (IF line = BlankLine THEN <<>> ELSE LineToks(line))],
              g |-> g]
  IN Role(LineHead(line).k)

\* BodyLine without the test of the error flag (lib.rs 566-568)
BodyLine_interpreting(P, line, io) ==
  LET Interpreted(r) == [P EXCEPT !.fold_env = r.f, !.g = r.g]
      Echoed(f) == Interpreted(Interpret(f, P.g, line, io))
  IN Echoed([P.fold_env EXCEPT !.ret = PushNL(PushLine(insert_newline(@), line))])

\* lib.rs 563-612: a line of the body of the open fold
BodyLine(P, line, io) ==
  LET Interpreted(r) == [P EXCEPT !.fold_env = r.f, !.g = r.g]
      Echoed(f) ==
        IF f.error THEN [P EXCEPT !.fold_env = f]
        ELSE Interpreted(Interpret(f, P.g, line, io))
  IN Echoed([P.fold_env EXCEPT !.ret = PushNL(PushLine(insert_newline(@), line))])

\* BeforeBody that pushes no newline for an empty line when the output ends
\* with one already (lib.rs 529-532)
BeforeBody_collapsing(P, line) ==
  IF P.fold_env.first_line /\ P.fold_started
    THEN [P EXCEPT !.fold_env.start_marker = StartLine(<<>>, "", ""),
                   !.fold_env.first_line = FALSE]
  ELSE IF ~P.fold_started
    THEN [P EXCEPT !.ret = IF line = BlankLine /\ ~@.open THEN @
                           ELSE PushLine(IF ~IsEmpty(@) THEN PushNL(@) ELSE @, line)]
  ELSE P

\* lib.rs 524-533: before the structural tests of a line that is no start marker
BeforeBody(P, line) ==
  IF P.fold_env.first_line /\ P.fold_started
    THEN [P EXCEPT !.fold_env.start_marker = StartLine(<<>>, "", ""),
                   !.fold_env.first_line = FALSE]
  ELSE IF ~P.fold_started
    THEN [P EXCEPT !.ret = PushLine(IF ~IsEmpty(@) THEN PushNL(@) ELSE @, line)]
  ELSE P

\* LineStep without first_while = false for a while-start line (lib.rs 491)
LineStep_first(P, line, io) ==
  LET Structural(P1) ==
        IF ~P1.fold_started THEN P1
        ELSE IF IsDivider(line) THEN [P1 EXCEPT !.fold_env.old_output_started = TRUE]
        ELSE IF IsEnd(line) THEN CloseFold(P1, line, io)
        ELSE IF P1.fold_env.old_output_started THEN P1
        ELSE BodyLine(P1, line, io)
      Started(P0) ==
        IF IsStart(line) THEN OpenFold(P0, line, io)
        ELSE Structural(BeforeBody(P0, line))
  IN Started(P)

\* lib.rs 490-612: one turn of the loop for a line that is not delegated to
\* the While construct
LineStep(P, line, io) ==
  LET Structural(P1) ==
        IF ~P1.fold_started THEN P1
        ELSE IF IsDivider(line) THEN [P1 EXCEPT !.fold_env.old_output_started = TRUE]
        ELSE IF IsEnd(line) THEN CloseFold(P1, line, io)
        ELSE IF P1.fold_env.old_output_started THEN P1
        ELSE BodyLine(P1, line, io)
      Started(P0) ==
        IF IsStart(line) THEN OpenFold(P0, line, io)
        ELSE Structural(BeforeBody(P0, line))
  IN IF IsWhileStart(line) THEN Started([P EXCEPT !.first_while = FALSE])
     ELSE Started(P)

\* lib.rs 615-620: after the last line of the input
EndOfInputStep(P, io) ==
  LET Compiled(g, top) ==
        [P EXCEPT !.g = g, !.fold_env = top.f, !.ret = PushStr(@, top.out)]
      Requested(req) == Compiled(req.g, compile_return(req.f))
  IN IF ~P.fold_env.made_request
       THEN Requested(FoldEnv_make_request(P.fold_env, P.g, io))
       ELSE P


(***************************************************************************)
(* process_while.rs: the While construct.  A While is the record of its    *)
(* fields condition, block, output and error.  The loop of While::run has  *)
(* no bound in the source; the model follows it for MaxIter iterations and *)
(* reports a loop that is still running then as hung.                      *)
(***************************************************************************)
While_new == [condition |-> <<>>, block |-> EmptyText, output |-> EmptyText, error |-> FALSE]

\* suffix_re.replace: strips " executed (SUCCESS)" or " executed (ERROR)"
StripStatus(l) ==
  IF l.k = "start" /\ l.suf \in {"SUCCESS", "ERROR"} THEN [l EXCEPT !.suf = ""] ELSE l

\* Regex ERROR \(ERROR\)$ on a line
RECURSIVE EndsWithError(_)
EndsWithError(l) ==
  CASE l.k = "start" -> l.suf = "ERROR"
    [] l.k = "glued" -> EndsWithError(l.b)
    [] l.k = "text" -> /\ Len(l.toks) >= 2
                       /\ l.toks[Len(l.toks)] = ")"
                       /\ l.toks[Len(l.toks) - 1] = "ERROR"
    [] OTHER -> FALSE

\* String::trim_end on a text of whole lines: trailing empty lines and the
\* last newline are dropped
RECURSIVE TrimEnd(_)
TrimEnd(t) ==
  IF t.lines = <<>> THEN EmptyText
  ELSE IF LastOf(t.lines) = BlankLine THEN TrimEnd([lines |-> Front(t.lines), open |-> FALSE])
  ELSE [lines |-> t.lines, open |-> TRUE]

\* the title gen_default_output derives from the first line of the block:
\* start_marker_re ###\{\s* replaced by the empty string
DefaultTitle(first_line) ==
  IF first_line.k = "start" THEN [cond |-> first_line.cond, name |-> first_line.name]
  ELSE NoTitle

\* While::gen_default_output
gen_default_output(w, output) ==
  LET WithOutput(t, last_line) ==
        [w EXCEPT !.output = PushLine(IF IsEmpty(output) THEN t
                                      ELSE PushNL(PushStr(t, output)),
                                      last_line)]
      WithInput(t, input, first_line, last_line) ==
        WithOutput(PushStr(IF IsEmpty(input) \/ input.lines = <<BlankLine>> THEN t
                           ELSE PushNL(PushStr(t, input)),
                           LineNL(DividerLine(DefaultTitle(first_line),
                                              ResultWord(w.error)))),
                   last_line)
      Parts(ls, first_line, last_line) ==
        WithInput(LineNL(WithExecuted(first_line, Status(w.error))),
                  IF Len(ls) > 2
                    THEN [lines |-> SubSeq(ls, 2, Len(ls) - 1), open |-> TRUE]
                    ELSE EmptyText,
                  first_line, last_line)
      Lines(ls) ==
        IF ls = <<>> THEN Parts(ls, BlankLine, BlankLine)
        ELSE Parts(ls, StripStatus(ls[1]), LastOf(ls))
  IN Lines(LinesOf(w.block))

\* check_condition that answers false when the evaluation fails, and no more
check_condition_quiet(w, g) ==
  LET Checked(res) ==
        IF res.ok THEN [w |-> w, holds |-> res.val = <<"true">>]
        ELSE [w |-> w, holds |-> FALSE]
  IN Checked(parse_selectors(w.condition, g.env))

\* While::check_condition: the While after the call and the result
check_condition(w, g) ==
  LET Checked(res) ==
        IF res.ok THEN [w |-> w, holds |-> res.val = <<"true">>]
        ELSE [w |-> gen_default_output([w EXCEPT !.error = TRUE], res.err),
              holds |-> FALSE]
  IN Checked(parse_selectors(w.condition, g.env))

\* parse_while that stops at the first while-end line, counting no start
RECURSIVE BlockLen_flat(_, _, _)
BlockLen_flat(input, i, num_loops) ==
  IF i > Len(input) THEN Len(input)
  ELSE IF IsWhileEnd(input[i]) THEN i
  ELSE BlockLen_flat(input, i + 1, num_loops)

\* the lines parse_while reads after the first line: up to and including the
\* line where the count of open while blocks reaches 0, or all of them
RECURSIVE BlockLen(_, _, _)
BlockLen(input, i, num_loops) ==
  IF i > Len(input) THEN Len(input)
  ELSE LET n1 == IF IsWhileStart(input[i]) THEN num_loops + 1 ELSE num_loops
           n2 == IF IsWhileEnd(input[i]) THEN n1 - 1 ELSE n1
       IN IF n2 = 0 THEN i ELSE BlockLen(input, i + 1, n2)

\* first_line.replacen("{", "", 1), suffix_re.replace and the status word:
\* the reduced header made of the first line of the output
FirstLineFormatted(first_line, error) ==
  IF first_line.k = "start"
    THEN HashLine("subhdr", <<>>, [cond |-> first_line.cond, name |-> first_line.name],
                  ResultWord(error))
    ELSE Glue(first_line, TextLine(<<" ", ResultWord(error)>>))

\* last_line.replacen("}", "", 1)
LastLineFormatted(last_line) ==
  IF last_line.k = "end"
    THEN HashLine("subend", IF last_line.rest = "" THEN <<>> ELSE <<last_line.rest>>,
                  NoTitle, "")
    ELSE last_line

\* the loop of While::compile_return without the continue of its divider test
RECURSIVE SplitOutput_keeping(_, _, _, _)
SplitOutput_keeping(ls, i, reached_divider, acc) ==
  IF i > Len(ls) \/ i = Len(ls) THEN acc
  ELSE IF ~(reached_divider \/ IsDivider(ls[i]))
    THEN SplitOutput_keeping(ls, i + 1, FALSE,
                             [acc EXCEPT !.input = PushStr(@, LineNL(ls[i]))])
  ELSE SplitOutput_keeping(ls, i + 1, TRUE,
                           [acc EXCEPT !.output = PushStr(@, LineNL(ls[i]))])

\* the loop of While::compile_return over the lines i.. of the output
RECURSIVE SplitOutput(_, _, _, _)
SplitOutput(ls, i, reached_divider, acc) ==
  IF i > Len(ls) THEN acc
  ELSE IF IsDivider(ls[i]) THEN SplitOutput(ls, i + 1, TRUE, acc)
  ELSE IF i = Len(ls) THEN acc
  ELSE IF ~reached_divider
    THEN SplitOutput(ls, i + 1, reached_divider,
                     [acc EXCEPT !.input = PushStr(@, LineNL(ls[i]))])
  ELSE SplitOutput(ls, i + 1, reached_divider,
                   [acc EXCEPT !.output = PushStr(@, LineNL(ls[i]))])

\* While::compile_return: the (input, output) pair in the merge shape
While_compile_return(w) ==
  LET Merged(acc, last_line) ==
        [ret |-> PushLine(acc.input, last_line),
         out |-> PushLine(acc.output, LastLineFormatted(last_line))]
      Parts(ls, first_line, last_line) ==
        Merged(SplitOutput(ls, 1, FALSE,
                 [input |-> EmptyText,
                  output |-> LineNL(FirstLineFormatted(first_line, w.error))]),
               last_line)
      Lines(ls) ==
        IF ls = <<>> THEN Parts(ls, BlankLine, BlankLine)
        ELSE Parts(ls, ls[1], LastOf(ls))
  IN Lines(LinesOf(w.output))

RECURSIVE RunInput(_, _, _, _)
RECURSIVE While_loop(_, _, _, _)
RECURSIVE While_loop_first(_, _, _, _)

\* parse_input on the lines of a string: the output, the environment after
\* the call and whether a loop in it hangs
parse_input(lines, g, ignore_first_while, io) ==
  LET Finished(P, hung) == [out |-> P.ret, g |-> P.g, hung |-> hung]
      AtEnd(r) == Finished(EndOfInputStep(r.P, io), r.hung)
  IN AtEnd(RunInput(ParseState_new(g), lines, ignore_first_while, io))

\* While::run: the While and the environment after the loop
While_run(w, g, io) ==
  LET Defaulted(r) ==
        [r EXCEPT !.w = IF IsEmpty(r.w.output) THEN gen_default_output(r.w, EmptyText)
                        ELSE r.w]
  IN Defaulted(While_loop(w, g, io, 0))

\* the loop of While::run that keeps the output of its first run
While_loop_first(w, g, io, iter) ==
  LET Iterated(w1, run, first_line) ==
        IF run.hung THEN [w |-> w1, g |-> g, hung |-> TRUE]
        ELSE While_loop_first([w1 EXCEPT !.output = IF iter = 0 THEN run.out ELSE @,
                                         !.error = @ \/ EndsWithError(first_line)],
                              run.g, io, iter + 1)
      Body(w1, run) ==
        Iterated(w1, run, IF IsEmpty(run.out) THEN BlankLine ELSE LinesOf(run.out)[1])
      Tested(c) ==
        IF ~(c.holds /\ ~c.w.error) THEN [w |-> c.w, g |-> g, hung |-> FALSE]
        ELSE IF iter >= MaxIter THEN [w |-> c.w, g |-> g, hung |-> TRUE]
        ELSE Body(c.w, parse_input(LinesOf(w.block), g, TRUE, io))
  IN Tested(check_condition(w, g))

\* the loop of While::run, at its iter-th test of the condition
While_loop(w, g, io, iter) ==
  LET Iterated(w1, run, first_line) ==
        IF run.hung THEN [w |-> w1, g |-> g, hung |-> TRUE]
        ELSE While_loop([w1 EXCEPT !.output = run.out,
                                   !.error = @ \/ EndsWithError(first_line)],
                        run.g, io, iter + 1)
      Body(w1, run) ==
        Iterated(w1, run, IF IsEmpty(run.out) THEN BlankLine ELSE LinesOf(run.out)[1])
      Tested(c) ==
        IF ~(c.holds /\ ~c.w.error) THEN [w |-> c.w, g |-> g, hung |-> FALSE]
        ELSE IF iter >= MaxIter THEN [w |-> c.w, g |-> g, hung |-> TRUE]
        ELSE Body(c.w, parse_input(LinesOf(w.block), g, TRUE, io))
  IN Tested(check_condition(w, g))

\* While::parse_while: the While built and run, the input lines left and
\* the environment after the call
parse_while(first_line, input, g, io) ==
  LET Ran(r, n) ==
        [w |-> r.w, rest |-> SubSeq(input, n + 1, Len(input)), g |-> r.g,
         hung |-> r.hung]
      Block(condition, n) ==
        Ran(While_run([While_new EXCEPT
                         !.condition = condition,
                         !.block = TrimEnd(LinesNL(<<first_line>> \o SubSeq(input, 1, n)))],
                      g, io),
            n)
      Condition(condition) ==
        IF condition = <<>>
          THEN [w |-> gen_default_output(While_new,
                        io_error(<<"Could not get while condition">>)),
                rest |-> input, g |-> g, hung |-> FALSE]
          ELSE Block(condition, BlockLen(input, 1, 1))
  IN Condition(LineHead(first_line).cond)

\* lib.rs 478-489: a while-start line is delegated to the While construct
WhileStep(P, line, input, io) ==
  LET Merged(r, nest) ==
        [P |-> [(IF P.fold_started
                   THEN [P EXCEPT !.fold_env.ret = PushStr(@, nest.ret),
                                  !.fold_env.output = PushStr(@, nest.out),
                                  !.fold_env.error = @ \/ r.w.error]
                   ELSE [P EXCEPT !.ret = PushStr(@, r.w.output)])
                 EXCEPT !.g = r.g, !.first_while = FALSE, !.last_while = <<r.w>>],
         rest |-> r.rest, hung |-> r.hung]
      Parsed(r) == Merged(r, While_compile_return(r.w))
  IN Parsed(parse_while(line, input, P.g, io))

\* the loop of parse_input over the lines of its input
RunInput(P, lines, ignore_first_while, io) ==
  LET Delegated(r) ==
        IF r.hung THEN [P |-> r.P, hung |-> TRUE]
        ELSE RunInput(r.P, r.rest, ignore_first_while, io)
  IN IF lines = <<>> THEN [P |-> P, hung |-> FALSE]
     ELSE IF IsWhileStart(Head(lines)) /\ ~(ignore_first_while /\ P.first_while)
       THEN Delegated(WhileStep(P, Head(lines), Tail(lines), io))
     ELSE RunInput(LineStep(P, Head(lines), io), Tail(lines), ignore_first_while, io)


(***************************************************************************)
(* The state machine: one run of the program on a document that is read    *)
(* line by line.  The variables ret, fold_env, fold_started, first_while   *)
(* are the locals of parse_input, env and file the Environment in memory   *)
(* and on disk.  History variables: log (results of define_var), pc,       *)
(* nread (lines read), cur (the line just read), opened / closed (start    *)
(* and end markers read since no fold was open), last_closed (the fold the *)
(* step just taken closed, after its rendering, or <<>>), last_while (the   *)
(* While that parse_while returned in the step just taken, or <<>>),       *)
(* run / out1 / log1 / input (a second run of parse_input on the output    *)
(* of the first).  The remote sessions: sessions is GlobalEnv.sessions,    *)
(* the map from a destination to its session; session is the local of      *)
(* ssh_curl / ssh_get_env_var while the remote command runs, <<>> when none *)
(* does; links is the history of the sessions connected, in the order of   *)
(* their connection, each with the number of times it was closed and the   *)
(* place where.                                                            *)
(***************************************************************************)
VARIABLES ret, fold_env, fold_started, first_while, env, file,
          log, pc, nread, cur, opened, closed, last_closed, last_while,
          run, out1, log1, input, sessions, session, links

vars == <<ret, fold_env, fold_started, first_while, env, file,
          log, pc, nread, cur, opened, closed, last_closed, last_while,
          run, out1, log1, input, sessions, session, links>>

\* SshSessions::new: no session
NoSessions == [d \in {} |-> 0]

\* the lines of the documents of the bounded runs
TitleA == "a"

CondLt2 == <<"{{", ".", "i", "<2", "}}">>

StartA == StartLine(<<>>, TitleA, "")

EndC == EndLine("c")

Divider == DividerLine(NoTitle, "")

AssignOk == AssignLine("x", <<"1">>)

AssignBad == AssignLine("y", <<"{{", ".", "dne", "}}">>)

AssignInc == AssignLine("i", <<"{{", ".", "i", "+1", "}}">>)

RequestLine == TextLine(<<"GET", " ", "u">>)

WhileStart == StartLine(CondLt2, "", "")

WhileEnd == EndLine("endwhile")

Alphabet == {StartA, EndC, Divider, AssignOk, AssignBad, RequestLine, BlankLine}

NestAlphabet == {StartA, EndC, AssignOk, AssignBad}

WhileBlocks == {<<WhileStart, AssignInc, WhileEnd>>, <<WhileStart, AssignBad, WhileEnd>>}

\* the answers of the curl process
CurlOk == [ok |-> TRUE, out |-> LineStr(TextLine(<<"HTTP 200">>)), err |-> EmptyText]

CurlFail ==
  [ok |-> FALSE, out |-> EmptyText, err |-> LinesNL(<<TextLine(<<"curl: (6) failed">>)>>)]

IoSet == {[curl |-> c, write_ok |-> TRUE] : c \in {CurlOk, CurlFail}}

IoOk == [curl |-> CurlOk, write_ok |-> TRUE]

\* the env file holding "{}"
EmptyEnv == [k \in {} |-> Null]

\* no env file, and an env file that is no JSON text
NoFile == [t |-> "absent"]

BadFile == [t |-> "garbled"]

\* GlobalEnv::new: the root is the value the env file parses to, of whatever
\* type, and {} when the file cannot be read or parsed
GlobalEnv_new(stored) == IF stored \in {NoFile, BadFile} THEN EmptyEnv ELSE stored

\* the start of the program on one of the env files docs, and the entry of
\* parse_input
Start(docs) ==
  /\ file \in docs
  /\ env = GlobalEnv_new(file)
  /\ ret = EmptyText
  /\ fold_env = FoldEnv_new
  /\ fold_started = FALSE
  /\ first_while = TRUE
  /\ log = <<>>
  /\ pc = "reading"
  /\ nread = 0
  /\ cur = BlankLine
  /\ opened = 0
  /\ closed = 0
  /\ last_closed = <<>>
  /\ last_while = <<>>
  /\ run = 1
  /\ out1 = EmptyText
  /\ log1 = <<>>
  /\ input = <<>>
  /\ sessions = NoSessions
  /\ session = <<>>
  /\ links = <<>>

Init ==
  /\ ret = EmptyText
  /\ fold_env = FoldEnv_new
  /\ fold_started = FALSE
  /\ first_while = TRUE
  /\ env = EmptyEnv
  /\ file = EmptyEnv
  /\ log = <<>>
  /\ pc = "reading"
  /\ nread = 0
  /\ cur = BlankLine
  /\ opened = 0
  /\ closed = 0
  /\ last_closed = <<>>
  /\ last_while = <<>>
  /\ run = 1
  /\ out1 = EmptyText
  /\ log1 = <<>>
  /\ input = <<>>
  /\ sessions = NoSessions
  /\ session = <<>>
  /\ links = <<>>

\* the state of a call of parse_input, and its return into the variables;
\* the Environment of the documents names no remote destination (sshTo), so
\* that curl is run locally (lib.rs 731) and the sessions stay as they are
CurP ==
  [ret |-> ret, fold_env |-> fold_env, fold_started |-> fold_started,
   first_while |-> first_while, g |-> [env |-> env, file |-> file, log |-> log],
   last_closed |-> <<>>, last_while |-> <<>>]

SetP(P) ==
  /\ UNCHANGED <<sessions, session, links>>
  /\ ret' = P.ret
  /\ fold_env' = P.fold_env
  /\ fold_started' = P.fold_started
  /\ first_while' = P.first_while
  /\ env' = P.g.env
  /\ file' = P.g.file
  /\ log' = P.g.log
  /\ last_closed' = P.last_closed
  /\ last_while' = P.last_while

\* the markers counted by opened and closed
Count(l) ==
  /\ opened' = IF ~fold_started' THEN 0
               ELSE IF IsStart(l) THEN opened + 1 ELSE opened
  /\ closed' = IF ~fold_started' THEN 0
               ELSE IF ~IsStart(l) /\ IsEnd(l) /\ fold_started THEN closed + 1 ELSE closed

\* one turn of the loop of parse_input on the line l
Turn(l, io) ==
  /\ SetP(LineStep(CurP, l, io))
  /\ cur' = l
  /\ Count(l)

\* one more line, taken from the set A, is read in the first run
Read(A, ios, max) ==
  /\ pc = "reading"
  /\ run = 1
  /\ nread < max
  /\ \E l \in A, io \in ios : Turn(l, io)
  /\ nread' = nread + 1
  /\ UNCHANGED <<pc, run, out1, log1, input>>

\* the first run reads any line of the alphabet
ReadLine == Read(Alphabet, IoSet, MaxLines)

\* "{{.{{.k}}{{.num}}}}" between quotes, the value of the last test case of
\* test_parse_selectors with .k for .arr[0]
NestedSelector ==
  <<Quote, "{{", ".", "{{", ".", "k", "}}", "{{", ".", "num", "}}", "}}", Quote>>

\* documents of one fold that build the Environment of test_parse_selectors
\* and substitute the nested selector
SubstAlphabet ==
  {StartA,
   AssignLine("k", <<Quote, "a", Quote>>),
   AssignLine("num", <<"1">>),
   AssignLine("a", <<Quote, "test", Quote>>),
   AssignLine("a1", <<Quote, "success", Quote>>),
   AssignLine("r", NestedSelector)}

\* the first run reads a while block taken from the set B, which parse_while
\* consumes whole
ReadBlock(B, ios, max) ==
  /\ pc = "reading"
  /\ run = 1
  /\ \E blk \in B, io \in ios :
       LET Delegated(r) ==
             /\ SetP(r.P)
             /\ pc' = IF r.hung THEN "hung" ELSE "reading"
       IN /\ nread + Len(blk) <= max
          /\ Delegated(WhileStep(CurP, Head(blk), Tail(blk), io))
          /\ cur' = Head(blk)
          /\ nread' = nread + Len(blk)
  /\ UNCHANGED <<opened, closed, run, out1, log1, input>>

ReadWhile == ReadBlock(WhileBlocks, IoSet, MaxLines)

\* read_line returns Ok(0): the end of the input
EndOfInputWith(ios) ==
  /\ pc = "reading"
  /\ run = 1 \/ input = <<>>
  /\ \E io \in ios : SetP(EndOfInputStep(CurP, io))
  /\ pc' = "done"
  /\ UNCHANGED <<nread, cur, opened, closed, run, out1, log1, input>>

EndOfInput == EndOfInputWith(IoSet)

Next == ReadLine \/ ReadWhile \/ EndOfInput

Spec == Init /\ [][Next]_vars

\* documents of nested folds with assignments only, which may be longer
ReadNested == Read(NestAlphabet, {IoOk}, MaxNestLines)

\* the end of the input, with curl answering the same on every call
EndOfRun == EndOfInputWith({IoOk})

NextNested == ReadNested \/ EndOfRun

SpecNested == Init /\ [][NextNested]_vars

\* "@x=1": an assignment written without spaces around '='
AssignTight == [AssignOk EXCEPT !.sep = "="]

\* documents of top-level folds of assignments, substituted or not
AssignAlphabet == {StartA, EndC, AssignOk, AssignTight, AssignInc, AssignBad}

ReadAssign == Read(AssignAlphabet, {IoOk}, MaxLines)

NextAssign == ReadAssign \/ EndOfRun

SpecAssign == Init /\ [][NextAssign]_vars

ReadSubst == Read(SubstAlphabet, {IoOk}, MaxLines)

NextSubst == ReadSubst \/ EndOfRun

SpecSubst == Init /\ [][NextSubst]_vars

\* while blocks on the condition {{.go}}, which is "true", "false" or fails
\* as the variable go is true, false or null / not defined
CondGo == <<"{{", ".", "go", "}}">>

WhileGo == StartLine(CondGo, "", "")

GoTrue == AssignLine("go", <<"true">>)

GoFalse == AssignLine("go", <<"false">>)

GoNull == AssignLine("go", <<"null">>)

\* a while block within a while block: the inner one runs once in every
\* iteration of the outer one
NestedBlock == <<WhileStart, GoTrue, WhileGo, GoFalse, WhileEnd, AssignInc, WhileEnd>>

\* a while block as a former run left it at the top level of the document
StaleBlock ==
  <<WithExecuted(WhileStart, "SUCCESS"), AssignInc,
    DividerLine(TitleOf(WhileStart), "RESULT"), AssignLine("i", <<"2">>), WhileEnd>>

LoopBlocks ==
  WhileBlocks \cup
    {<<WhileGo, GoFalse, WhileEnd>>,
     <<WhileGo, GoNull, WhileEnd>>,
     <<WhileGo, GoNull, AssignBad, WhileEnd>>,
     <<WhileGo, WhileEnd>>,
     NestedBlock,
     StaleBlock}

\* documents of folds and while blocks, inside folds and outside
LoopAlphabet == {StartA, EndC, GoTrue, AssignInc}

ReadPlain == Read(LoopAlphabet, {IoOk}, MaxNestLines)

ReadLoop == ReadBlock(LoopBlocks, {IoOk}, MaxNestLines)

NextWhile == ReadPlain \/ ReadLoop \/ EndOfRun

SpecWhile == Init /\ [][NextWhile]_vars

\* documents made of folds only: every line is a start marker or is read
\* while a fold is open; curl answers the same on every call
ReadFold ==
  /\ pc = "reading"
  /\ run = 1
  /\ nread < MaxLines
  /\ \E l \in Alphabet : (fold_started \/ IsStart(l)) /\ Turn(l, IoOk)
  /\ nread' = nread + 1
  /\ UNCHANGED <<pc, run, out1, log1, input>>

\* the program is started again on the output of the first run: a new
\* GlobalEnv reads the env file, parse_input starts on the lines of the output
Rerun ==
  /\ pc = "done"
  /\ run = 1
  /\ run' = 2
  /\ out1' = ret
  /\ log1' = log
  /\ input' = LinesOf(ret)
  /\ SetP(ParseState_new([env |-> GlobalEnv_new(file), file |-> file, log |-> <<>>]))
  /\ pc' = "reading"
  /\ nread' = 0
  /\ cur' = BlankLine
  /\ opened' = 0
  /\ closed' = 0

\* the second run reads the next line of the output of the first
Reread ==
  /\ pc = "reading"
  /\ run = 2
  /\ input # <<>>
  /\ Turn(Head(input), IoOk)
  /\ input' = Tail(input)
  /\ nread' = nread + 1
  /\ UNCHANGED <<pc, run, out1, log1>>

NextRerun == ReadFold \/ EndOfRun \/ Rerun \/ Reread

SpecRerun == Init /\ [][NextRerun]_vars

\* an env file whose values hold selectors: s names itself, p names q
StoredSelectors ==
  [k \in {"s", "p", "q"} |->
     CASE k = "s" -> Str(<<"{{", ".", "s", "}}">>)
       [] k = "p" -> Str(<<"{{", ".", "q", "}}">>)
       [] OTHER -> Num(1)]

\* the env files of the bounded runs: none, no JSON, the number 5, {} and
\* the one above
StoredDocs == {NoFile, BadFile, Num(5), EmptyEnv, StoredSelectors}

\* '@v = "{{.p}}"', '@w = "{{.s}}"', '@m = "{{.q}}{{.dne}}"' and
\* '@l = "{{.q}}{{.d{{.q}}}}"'
AssignVia == AssignLine("v", <<Quote, "{{", ".", "p", "}}", Quote>>)

AssignSelf == AssignLine("w", <<Quote, "{{", ".", "s", "}}", Quote>>)

AssignPart ==
  AssignLine("m", <<Quote, "{{", ".", "q", "}}", "{{", ".", "dne", "}}", Quote>>)

AssignLate ==
  AssignLine("l", <<Quote, "{{", ".", "q", "}}",
                    "{{", ".", "d", "{{", ".", "q", "}}", "}}", Quote>>)

\* '@p = null': p no longer names q
AssignP == AssignLine("p", <<"null">>)

StoreAlphabet ==
  {StartA, EndC, AssignOk, AssignBad, AssignVia, AssignSelf, AssignPart, AssignLate,
   AssignP}

\* parse_selectors did not return within MaxPass passes in the last step:
\* the recursion of lib.rs 681-684 is still going on
Diverged ==
  /\ log # <<>>
  /\ ~log[Len(log)].ok
  /\ fold_env.output.lines # <<>>
  /\ LastOf(fold_env.output.lines) = TextLine(<<"diverges">>)

\* one more line of a fold, taken from the set A, is read in the first run;
\* the program hangs in a substitution that does not end
ReadIn(A, ios, max) ==
  /\ pc = "reading"
  /\ run = 1
  /\ nread < max
  /\ \E l \in A, io \in ios : (fold_started \/ IsStart(l)) /\ Turn(l, io)
  /\ nread' = nread + 1
  /\ pc' = IF Len(log') > Len(log) /\ Diverged' THEN "hung" ELSE pc
  /\ UNCHANGED <<run, out1, log1, input>>

ReadStored == ReadIn(StoreAlphabet, {IoOk}, MaxLines)

NextStore == ReadStored \/ EndOfRun

\* documents of folds of assignments, run on each of the env files
SpecStore == Start(StoredDocs) /\ [][NextStore]_vars

\* 'GET u{{.x}}', 'h{{.x}}' (a header or a line of the body) and the flag
\* lines '# @form f={{.x}}', '# @debug', '# @verbose', '# @options --test'
ReqX == TextLine(<<"GET", " ", "u", "{{", ".", "x", "}}">>)

TplX == TextLine(<<"h", "{{", ".", "x", "}}">>)

FormX == HashLine("form", <<"f", "=", "{{", ".", "x", "}}">>, NoTitle, "")

DebugFlag == HashLine("debug", <<>>, NoTitle, "")

VerboseFlag == HashLine("verbose", <<>>, NoTitle, "")

OptionsFlag == HashLine("options", <<"--test">>, NoTitle, "")

\* '# @name r': the response is stored under r
NameFlag == HashLine("name", <<"r">>, NoTitle, "")

RequestAlphabet ==
  {StartA, EndC, AssignOk, ReqX, TplX, BlankLine, FormX, DebugFlag, VerboseFlag,
   OptionsFlag, NameFlag}

\* the env file that holds x = 0
StoredX == [k \in {"x"} |-> Num(0)]

ReadRequest == ReadIn(RequestAlphabet, IoSet, MaxLines)

NextRequest == ReadRequest \/ EndOfInput

\* documents of folds with a request of templates, flags and an assignment
SpecRequest == Start({EmptyEnv, StoredX}) /\ [][NextRequest]_vars

\* '@j = abc' (no JSON) and '@f "x"' (no '=': the regex of define_var does
\* not match)
AssignJunk == AssignLine("j", <<"abc">>)

AssignNoEq == [k |-> "assign", name |-> "f", val |-> <<>>, sep |-> " "]

PersistAlphabet ==
  {StartA, EndC, AssignOk, AssignBad, AssignJunk, AssignNoEq, NameFlag, RequestLine,
   BlankLine}

\* fs::write of the env file fails, curl fails, or neither
WriteFails == [curl |-> CurlOk, write_ok |-> FALSE]

PersistIo == {IoOk, WriteFails, [curl |-> CurlFail, write_ok |-> TRUE]}

ReadPersist == ReadIn(PersistAlphabet, PersistIo, MaxLines)

EndOfPersist == EndOfInputWith(PersistIo)

NextPersist == ReadPersist \/ EndOfPersist

\* documents of assignments and requests with a capture name, run on no env
\* file, on "{}" and on "5", with an env file that cannot always be written
SpecPersist == Start({NoFile, EmptyEnv, Num(5)}) /\ [][NextPersist]_vars

\* what curl writes to stdout: a status line alone, a JSON value alone; a
\* status line, an empty line and a JSON value, or a text that is no JSON,
\* or a text, an empty line and a JSON value
Responses ==
  LET H == TextLine(<<"HTTP 200">>)
      X == TextLine(<<"<xml>">>)
      J == TextLine(<<" ", "7">>)
  IN {LineStr(H),
      LineStr(J),
      [lines |-> <<H, BlankLine, J>>, open |-> TRUE],
      [lines |-> <<H, BlankLine, X>>, open |-> FALSE],
      [lines |-> <<H, BlankLine, X, BlankLine, J>>, open |-> TRUE]}

\* curl succeeds with one of the responses, its diagnostics on stderr, or fails
ResponseIo ==
  {[curl |-> [ok |-> TRUE, out |-> o, err |-> LinesNL(<<TextLine(<<"* Connected">>)>>)],
    write_ok |-> TRUE] : o \in Responses}
  \cup {[curl |-> CurlFail, write_ok |-> TRUE]}

ResponseAlphabet == {StartA, EndC, RequestLine, VerboseFlag, NameFlag}

ReadResponse == ReadIn(ResponseAlphabet, ResponseIo, MaxLines)

EndOfResponse == EndOfInputWith(ResponseIo)

NextResponse == ReadResponse \/ EndOfResponse

\* documents of folds with a request, verbose or not and with a capture name
\* or none, answered by each of the responses
SpecResponse == Start({EmptyEnv}) /\ [][NextResponse]_vars

(***************************************************************************)
(* The remote sessions.  With sshTo defined in the Environment, call_curl  *)
(* and get_env_var run their command on the session of that destination    *)
(* (lib.rs 718-721, 731-734).  A remote operation is two steps: Checkout,  *)
(* up to the command, and Return, the outcome of the command.              *)
(***************************************************************************)
\* the sessions connected in one run
MaxSessions == 3

\* the destinations an assignment gives to sshTo
Dests == {"a", "b"}

\* the variables of parse_input and its history, which a remote operation
\* leaves alone
parsing ==
  <<ret, fold_env, fold_started, first_while, log, nread, cur, opened, closed,
    last_closed, last_while, run, out1, log1, input>>

\* '@sshTo = "a"' is executed: set_var on the reserved key
AssignDest ==
  /\ pc = "reading"
  /\ session = <<>>
  /\ \E d \in Dests :
       LET Stored(st) == st.ok /\ env' = st.g.env /\ file' = st.g.file
       IN Stored(set_var("sshTo", Str(<<d>>), [env |-> env, file |-> file, log |-> log], TRUE))
  /\ UNCHANGED <<parsing, pc, sessions, session, links>>

\* ssh_curl (op = "curl") and ssh_get_env_var (op = "echo") up to the
\* command: the session of the destination is removed from the map, or
\* connected with connect_mux if the map holds none (lib.rs 749-767,
\* 783-801).  When sshTo is no string or the connection fails, the function
\* returns the error and nothing has changed.
Checkout ==
  /\ pc = "reading"
  /\ session = <<>>
  /\ IsObject(env)
  /\ "sshTo" \in DOMAIN env
  /\ env["sshTo"].t = "str"
  /\ \E op \in {"curl", "echo"} :
       LET Held(dest) ==
             IF dest \in DOMAIN sessions
               THEN /\ session' = <<[op |-> op, dest |-> dest, id |-> sessions[dest]]>>
                    /\ sessions' = [d \in DOMAIN sessions \ {dest} |-> sessions[d]]
                    /\ links' = links
               ELSE /\ Len(links) < MaxSessions
                    /\ session' = <<[op |-> op, dest |-> dest, id |-> Len(links) + 1]>>
                    /\ sessions' = sessions
                    /\ links' = Append(links, [dest |-> dest, closed |-> 0, at |-> ""])
       IN Held(JoinToks(env["sshTo"].s))
  /\ UNCHANGED <<parsing, pc, env, file>>

\* the command has run (lib.rs 768-779, 802-813): when it succeeded the
\* session is inserted into the map under its destination; when it could
\* not be run or its exit status is a failure, the function returns the
\* error by `?` and the session, a local of the function, is dropped, which
\* closes it (Drop of openssh::Session)
Return ==
  /\ session # <<>>
  /\ \E ok \in BOOLEAN :
       LET Ended(h) ==
             IF ok
               THEN /\ sessions' = [d \in DOMAIN sessions \cup {h.dest} |->
                                      IF d = h.dest THEN h.id ELSE sessions[d]]
                    /\ links' = links
               ELSE /\ sessions' = sessions
                    /\ links' = [links EXCEPT ![h.id].closed = @ + 1,
                                              ![h.id].at = "return"]
       IN Ended(session[1])
  /\ session' = <<>>
  /\ UNCHANGED <<parsing, pc, env, file>>

\* the GlobalEnv goes out of scope at the end of the program: Drop for
\* SshSessions closes every session of the map (lib.rs 378-390)
Shutdown ==
  /\ pc = "reading"
  /\ session = <<>>
  /\ pc' = "dropped"
  /\ sessions' = NoSessions
  /\ links' = [i \in 1 .. Len(links) |->
                 IF \E d \in DOMAIN sessions : sessions[d] = i
                   THEN [links[i] EXCEPT !.closed = @ + 1, !.at = "shutdown"]
                   ELSE links[i]]
  /\ UNCHANGED <<parsing, env, file, session>>

NextRemote == AssignDest \/ Checkout \/ Return \/ Shutdown

\* remote operations on the destinations that assignments give to sshTo,
\* succeeding or failing, and the end of the program
SpecRemote == Start({EmptyEnv}) /\ [][NextRemote]_vars

\* curl answers with one of the responses or fails, and the env file cannot
\* always be written
CaptureIo == PersistIo \cup ResponseIo

CaptureAlphabet == {StartA, EndC, NameFlag, ReqX, TplX, BlankLine, FormX}

ReadCapture == ReadIn(CaptureAlphabet, CaptureIo, MaxLines)

EndOfCapture == EndOfInputWith(CaptureIo)

NextCapture == ReadCapture \/ EndOfCapture

\* documents of folds with a request of templates and a capture name, run
\* on "{}", where the templates fail, and on the env file that holds x
SpecCapture == Start({EmptyEnv, StoredX}) /\ [][NextCapture]_vars

\* start markers as a former run left them: '###{ a', '###{ a executed',
\* '###{ a executed (SUCCESS)', '###{ a executed (ERROR)', and the same
\* without a title
MarkedAlphabet ==
  {StartLine(<<>>, n, st) : n \in {TitleA, ""},
                            st \in {"", "executed", "SUCCESS", "ERROR"}}
    \cup {EndC, AssignOk, AssignBad}

ReadMarked == ReadIn(MarkedAlphabet, {IoOk}, MaxLines)

NextMarked == ReadMarked \/ EndOfRun

\* documents of folds, nested or not, of assignments that succeed or fail,
\* whose start markers carry the status of a former run
SpecMarked == Init /\ [][NextMarked]_vars


(***************************************************************************)
(* Vocabulary of the properties: the kinds of steps of parse_input and the *)
(* folds a step leaves behind.                                             *)
(***************************************************************************)
\* the length of the parent chain of a fold (FoldEnv.parent_fold)
RECURSIVE ChainLen(_)
ChainLen(f) == IF f.parent_fold = <<>> THEN 0 ELSE 1 + ChainLen(f.parent_fold[1])

\* the number of open folds: the current fold and its parent chain
Depth == IF fold_started THEN 1 + ChainLen(fold_env) ELSE 0

\* a step of the loop of parse_input that reads the one line cur'
LineRead == pc = "reading" /\ pc' = "reading" /\ nread' = nread + 1

\* the line read matches start_fold_re (lib.rs 493)
OpensFold == LineRead /\ IsStart(cur')

\* the line read is the end marker of the current fold (lib.rs 541)
ClosesFold == LineRead /\ fold_started /\ ~IsStart(cur') /\ IsEnd(cur')

ClosesNested == ClosesFold /\ fold_env.parent_fold # <<>>

ClosesTop == ClosesFold /\ fold_env.parent_fold = <<>>

\* the line read is none of the structural lines of the open fold
BodyStep ==
  LineRead /\ fold_started /\ ~IsStart(cur') /\ ~IsEnd(cur') /\ ~IsDivider(cur')

\* the step after the last line (lib.rs 615)
AtEndOfInput == pc = "reading" /\ pc' = "done"

\* the current fold as the step leaves it: suspended as the parent of the
\* fold the step opens, closed by the step, or still the current fold
Successor ==
  IF OpensFold THEN (IF fold_started THEN fold_env'.parent_fold[1] ELSE fold_env)
  ELSE IF ClosesFold THEN last_closed'[1]
  ELSE fold_env'

\* the text a step appends to the output string ret, as lines
NewLines == SubSeq(ret'.lines, Len(ret.lines) + 1, Len(ret'.lines))

\* the line read is appended, with its newline, to the raw input of the
\* current fold, which stays the current fold (lib.rs 563-565)
Captured ==
  /\ fold_env'.ret.lines = Append(fold_env.ret.lines, cur')
  /\ ~fold_env'.ret.open

\* the step changes nothing of the current fold but its raw input, and
\* nothing of the Environment, in memory or on disk
NotInterpreted ==
  /\ fold_env' = [fold_env EXCEPT !.ret = fold_env'.ret]
  /\ env' = env
  /\ file' = file
  /\ log' = log

(***************************************************************************)
(* C1: a fold whose error flag is set                                      *)
(***************************************************************************)
\* the error flag of a fold stays set and its request is not issued, while
\* it is the current fold, when it is suspended and when it is closed
ErrorIsFinal ==
  /\ (fold_started /\ fold_env.error) =>
        Successor.error /\ Successor.issued = fold_env.issued
  /\ (ClosesNested /\ fold_env.parent_fold[1].error) =>
        fold_env'.error /\ fold_env'.issued = fold_env.parent_fold[1].issued

\* C1, as stated: once the error flag of the current fold is set, every later
\* line of its body that is no start marker, end marker, while-start marker
\* or stale divider is appended to the raw input ret of the fold and is not
\* interpreted (no assignment is executed, the Environment does not change),
\* and the request of the fold is not issued afterwards.
C1_ErrorKeepsCapturing ==
  [][ /\ (BodyStep /\ fold_env.error) => (Captured /\ NotInterpreted)
      /\ ErrorIsFinal ]_vars

\* C1, amended: the same for the lines read before the stale-output divider
\* of the fold; a line read after the divider is neither appended nor
\* interpreted.
C1_ErrorKeepsCapturingBeforeDivider ==
  [][ /\ (BodyStep /\ fold_env.error /\ ~fold_env.old_output_started) =>
           (Captured /\ NotInterpreted)
      /\ (BodyStep /\ fold_env.error /\ fold_env.old_output_started) =>
           (fold_env' = fold_env /\ env' = env /\ file' = file /\ log' = log)
      /\ ErrorIsFinal ]_vars

\* a fold in which an assignment failed has then read the assignment @x = 1:
\* the line is in its raw input and x is not defined
C1_Witness ==
  /\ fold_started
  /\ fold_env.error
  /\ ~fold_env.old_output_started
  /\ cur = AssignOk
  /\ Len(fold_env.ret.lines) >= 2
  /\ LastOf(fold_env.ret.lines) = AssignOk
  /\ fold_env.ret.lines[Len(fold_env.ret.lines) - 1] = AssignBad
  /\ "x" \notin DOMAIN env
  /\ log # <<>>
  /\ ~LastOf(log).ok

(***************************************************************************)
(* C2: the error of a nested fold                                          *)
(***************************************************************************)
\* the reduced header "### <title>RESULT" or "### <title>ERROR" of a child
ReducedHeader(child) ==
  HashLine("subhdr", <<>>, child.title, IF child.error THEN "ERROR" ELSE "RESULT")

\* the positions of the reduced headers with the given word in a text
HeadersAt(t, word) ==
  {i \in 1 .. Len(t.lines) :
     /\ LineHead(t.lines[i]).k = "hash"
     /\ LineHead(t.lines[i]).flag = "subhdr"
     /\ LineHead(t.lines[i]).status = word}

\* C2: when a nested fold closes, the error flag of the parent becomes its
\* previous flag OR the flag of the child, and the output of the parent is
\* its earlier output followed by the reduced block of the child, headed
\* RESULT for a successful and ERROR for a failing child; a top-level fold
\* whose flag is set, by a descendant or by itself, is rendered
\* "executed (ERROR)" with an ERROR divider.
C2_ErrorPropagates ==
  [][ /\ ClosesNested =>
           /\ fold_env'.error = (fold_env.parent_fold[1].error \/ last_closed'[1].error)
           /\ Len(fold_env'.output.lines) >= Len(fold_env.parent_fold[1].output.lines) + 2
           /\ SubSeq(fold_env'.output.lines, 1, Len(fold_env.parent_fold[1].output.lines))
                = fold_env.parent_fold[1].output.lines
           /\ fold_env'.output.lines[Len(fold_env.parent_fold[1].output.lines) + 1]
                = ReducedHeader(last_closed'[1])
           /\ LastOf(fold_env'.output.lines) = HashLine("subend", <<>>, NoTitle, "")
      /\ (ClosesTop /\ last_closed'[1].error /\ ret' # ret) =>
           /\ NewLines[1] = WithExecuted(fold_env.start_marker, "ERROR")
           /\ \E i \in 2 .. Len(NewLines) :
                NewLines[i] = DividerLine(fold_env.title, "ERROR")
           /\ \A i \in 2 .. Len(NewLines) :
                IsDivider(NewLines[i]) => NewLines[i].status = "ERROR" ]_vars

\* a top-level fold with an assignment of its own, a successful child and
\* then a failing child has been closed: it is rendered ERROR, and its
\* result section holds the echo of its assignment, the RESULT block and
\* then the ERROR block
C2_Witness ==
  /\ ~fold_started
  /\ cur = EndC
  /\ last_closed # <<>>
  /\ last_closed[1].error
  /\ Len(log) = 2
  /\ log[1].ok
  /\ ~log[2].ok
  /\ ret.lines # <<>>
  /\ ret.lines[1] = WithExecuted(StartA, "ERROR")
  /\ \E d \in 1 .. Len(ret.lines), i \in HeadersAt(ret, "RESULT"), j \in HeadersAt(ret, "ERROR") :
       /\ ret.lines[d] = DividerLine([cond |-> <<>>, name |-> TitleA], "ERROR")
       /\ ret.lines[d + 1] = AssignOk
       /\ d + 1 < i
       /\ i < j

(***************************************************************************)
(* C3: folds and while blocks that open after an error                     *)
(***************************************************************************)
\* a step that reads a while block (lib.rs 478-489)
WhileRead == pc = "reading" /\ pc' # "done" /\ nread' > nread + 1

\* C3: a fold that opens starts with a clear error flag, whatever happened
\* before; in a fold whose own flag is clear an assignment is executed and a
\* pending request is issued at the end marker, whatever the flags of its
\* ancestors; the flag a fold is closed with is set only by its own lines or
\* its own request; a while block runs its assignments after an error.
C3_ErrorDoesNotAbort ==
  [][ /\ OpensFold =>
           /\ ~fold_env'.error
           /\ fold_env'.issued = 0
           /\ ~fold_env'.old_output_started
      /\ (BodyStep /\ ~fold_env.error /\ ~fold_env.old_output_started
            /\ LineHead(cur').k = "assign") =>
           /\ Len(log') = Len(log) + 1
           /\ LastOf(log').ok => (cur'.name \in DOMAIN env' /\ ~fold_env'.error)
      /\ (ClosesFold /\ fold_env.request_started /\ ~fold_env.error
            /\ ~fold_env.made_request) =>
           last_closed'[1].issued = fold_env.issued + 1
      /\ (ClosesFold /\ last_closed'[1].error) =>
           (fold_env.error \/ last_closed'[1].issued > fold_env.issued)
      /\ (WhileRead /\ "i" \notin DOMAIN env) =>
           /\ Len(log') > Len(log)
           /\ fold_started =>
                (fold_env'.error <=> (fold_env.error \/ ~LastOf(log').ok)) ]_vars

\* the child of a parent whose error flag is set has executed @x = 1
C3_Witness ==
  /\ fold_started
  /\ fold_env.parent_fold # <<>>
  /\ fold_env.parent_fold[1].error
  /\ ~fold_env.error
  /\ cur = AssignOk
  /\ log # <<>>
  /\ LastOf(log).ok
  /\ "x" \in DOMAIN env
  /\ env["x"] = Num(1)

(***************************************************************************)
(* C4: the request of a fold                                               *)
(***************************************************************************)
\* every fold of a parent chain has issued its request at most once, and
\* only with a request line
RECURSIVE IssuedOnce(_)
IssuedOnce(f) ==
  /\ f.issued <= 1
  /\ f.issued = 1 => (f.request_started /\ f.made_request)
  /\ f.parent_fold # <<>> => IssuedOnce(f.parent_fold[1])

\* C4: every fold issues its request at most once; the request is issued
\* only when a nested start marker is read while the fold has a request line
\* and has not issued it, when the end marker of the fold is read, or at the
\* end of the input; never without a request line or with the error flag set;
\* a suspended fold issues nothing.
C4_RequestAtMostOnce ==
  /\ [](IssuedOnce(fold_env) /\ (last_closed # <<>> => IssuedOnce(last_closed[1])))
  /\ [][ /\ Successor.issued # fold_env.issued =>
              /\ Successor.issued = 1
              /\ fold_env.issued = 0
              /\ fold_started
              /\ fold_env.request_started
              /\ ~fold_env.error
              /\ ~fold_env.made_request
              /\ OpensFold \/ ClosesFold \/ AtEndOfInput
         /\ (OpensFold /\ fold_started) =>
              fold_env'.parent_fold[1].parent_fold = fold_env.parent_fold
         /\ ClosesNested =>
              /\ fold_env'.issued = fold_env.parent_fold[1].issued
              /\ fold_env'.parent_fold = fold_env.parent_fold[1].parent_fold
         /\ (fold_started /\ ~OpensFold /\ ~ClosesFold) =>
              fold_env'.parent_fold = fold_env.parent_fold ]_vars

\* a fold issued its request when a nested start marker was read, and was
\* closed later with the request issued once
C4_Witness ==
  /\ ~fold_started
  /\ pc = "reading"
  /\ cur = EndC
  /\ last_closed # <<>>
  /\ last_closed[1].issued = 1
  /\ \E i \in 2 .. Len(last_closed[1].ret.lines) :
       /\ last_closed[1].ret.lines[i - 1] = RequestLine
       /\ IsStart(last_closed[1].ret.lines[i])

(***************************************************************************)
(* C5, C6, C7: the rendering of a top-level fold                           *)
(***************************************************************************)
\* the two status forms of a rendered start marker
ExecutedForms(marker) ==
  {WithExecuted(marker, "SUCCESS"), WithExecuted(marker, "ERROR")}

\* the outermost fold of a parent chain
RECURSIVE Outermost(_)
Outermost(f) == IF f.parent_fold = <<>> THEN f ELSE Outermost(f.parent_fold[1])

\* the positions of the lines of a sequence that satisfy a test of the line
StartsIn(ls) == {i \in 1 .. Len(ls) : IsStart(ls[i])}

DividersIn(ls) == {i \in 1 .. Len(ls) : IsDivider(ls[i])}

\* C5: when the input ends while a fold with a non-empty body is open, the
\* output is extended by a rendering in the top-level shape: it begins with
\* the executed start marker of the outermost open fold, holds the start
\* marker of every open fold, and ends with the default end marker ###}.
C5_OpenFoldRenderedAtEnd ==
  [][ (AtEndOfInput /\ fold_started /\ ~IsEmpty(fold_env.ret)) =>
        /\ NewLines # <<>>
        /\ NewLines[1] \in ExecutedForms(Outermost(fold_env).start_marker)
        /\ Cardinality(StartsIn(NewLines)) >= Depth
        /\ Cardinality(DividersIn(NewLines)) = 1
        /\ LastOf(NewLines) = EndLine("") ]_vars

\* C6: every top-level fold closed by an end marker adds one rendering to
\* the output, whatever its body: the start marker with " executed (SUCCESS)"
\* or " executed (ERROR)", the raw input, one divider line with the title and
\* RESULT or ERROR, and last the end-marker line as it was read.
C6_ClosedFoldRendered ==
  [][ ClosesTop =>
        /\ Len(NewLines) >= 3
        /\ NewLines[1] \in ExecutedForms(fold_env.start_marker)
        /\ SubSeq(NewLines, 2, Len(fold_env.ret.lines) + 1) = fold_env.ret.lines
        /\ Cardinality(DividersIn(NewLines)) = 1
        /\ NewLines[Len(fold_env.ret.lines) + 2]
             \in {DividerLine(fold_env.title, "RESULT"), DividerLine(fold_env.title, "ERROR")}
        /\ LastOf(NewLines) = cur' ]_vars

\* the folds of the current state: the current fold, its parent and the fold
\* the last step closed
FoldsNow ==
  {fold_env}
    \cup (IF fold_env.parent_fold # <<>> THEN {fold_env.parent_fold[1]} ELSE {})
    \cup (IF last_closed # <<>> THEN {last_closed[1]} ELSE {})

\* C7: on every fold, a second call of compile_return returns the empty
\* string and leaves the fold as the first call left it, the same holds for
\* compile_for_parent and for compile_return after compile_for_parent; the
\* first call on a fold with a body returns its rendering; and at the end of
\* the input a fold that is closed adds nothing to the output.
C7_RenderOnce ==
  /\ [](\A f \in FoldsNow :
          /\ compile_return(compile_return(f).f).out = EmptyText
          /\ compile_return(compile_return(f).f).f = compile_return(f).f
          /\ compile_for_parent(compile_for_parent(f).f).ret = EmptyText
          /\ compile_for_parent(compile_for_parent(f).f).out = EmptyText
          /\ compile_for_parent(compile_for_parent(f).f).f = compile_for_parent(f).f
          /\ f.parent_fold # <<>> =>
               compile_return(compile_for_parent(f).f).out = EmptyText
          /\ (~f.compiled /\ ~IsEmpty(f.ret)) =>
               /\ compile_return(f).out.lines # <<>>
               /\ compile_return(f).out.lines[1] \in ExecutedForms(f.start_marker)
               /\ compile_return(f).f.compiled)
  /\ [][ (AtEndOfInput /\ (~fold_started \/ fold_env.compiled)) => ret' = ret ]_vars

\* the input ended after a top-level fold was closed: the output holds the
\* one rendering the end marker produced
C7_Witness ==
  /\ pc = "done"
  /\ ~fold_started
  /\ fold_env.compiled
  /\ cur = EndC
  /\ Cardinality(StartsIn(ret.lines)) = 1
  /\ Cardinality(DividersIn(ret.lines)) = 1
  /\ ret.lines[1] \in ExecutedForms(fold_env.start_marker)
  /\ LastOf(ret.lines) = EndC

(***************************************************************************)
(* C8: a second run on the output of the first                             *)
(***************************************************************************)
\* C8: for a document of folds whose assignments have the same results in
\* both runs, the second run, on the output of the first, returns that
\* output.
C8_RerunIdempotent ==
  (pc = "done" /\ run = 2 /\ log = log1) => ret = out1

(***************************************************************************)
(* C9: the stale region of a fold                                          *)
(***************************************************************************)
\* C9: after the stale-output divider of the current fold, a line or while
\* block that is not the end marker of the fold changes nothing: not the raw
\* input or any other field of the fold, not the Environment, not the output.
C9_StaleRegionDiscarded ==
  [][ (/\ LineRead \/ WhileRead
       /\ fold_started
       /\ fold_env.old_output_started
       /\ ~(LineRead /\ IsEnd(cur') /\ ~IsStart(cur'))) =>
        /\ fold_env' = fold_env
        /\ fold_started'
        /\ ret' = ret
        /\ env' = env
        /\ file' = file
        /\ log' = log ]_vars

(***************************************************************************)
(* C10: the depth of nesting                                               *)
(***************************************************************************)
\* C10: the number of open folds is the number of start markers read minus
\* the number of end markers read since no fold was open; a start marker
\* opens one fold, an end marker closes the innermost open fold and leaves
\* its ancestors as they were, and only the close of the outermost fold
\* leads back to the state with no open fold.
C10_DepthIsUnmatchedStarts ==
  /\ [](Depth = opened - closed)
  /\ [][ /\ OpensFold => Depth' = Depth + 1
         /\ ClosesFold => Depth' = Depth - 1
         /\ ClosesNested =>
              fold_env'.parent_fold = fold_env.parent_fold[1].parent_fold
         /\ (fold_started /\ ~fold_started') => (ClosesFold /\ Depth = 1)
         /\ (LineRead /\ ~OpensFold /\ ~ClosesFold) => Depth' = Depth ]_vars

\* after two start markers, an end marker and a third start marker two
\* folds are open
C10_Witness ==
  /\ Depth = 2
  /\ opened = 3
  /\ closed = 1
  /\ cur = StartA

(***************************************************************************)
(* C11, C12: the merge of a nested fold into its parent                    *)
(***************************************************************************)
\* C11: when a nested fold closes, the raw input of the parent is extended
\* by exactly the start marker of the child with " executed (SUCCESS)" or
\* " executed (ERROR)", the raw input of the child, its end marker and a
\* newline; the output of the parent is extended by exactly the reduced
\* header "### <title>RESULT" or "### <title>ERROR", the output of the child
\* and the closing line "###"; no "##########" divider line is added.
C11_NestedMerge ==
  [][ ClosesNested =>
        /\ last_closed'[1].ret = fold_env.ret
        /\ fold_env'.ret =
             PushStr(fold_env.parent_fold[1].ret,
                     PushNL(PushLine(
                       PushStr(LineNL(WithExecuted(fold_env.start_marker,
                                                   Status(last_closed'[1].error))),
                               fold_env.ret),
                       cur')))
        /\ fold_env'.output.lines =
             fold_env.parent_fold[1].output.lines
               \o <<ReducedHeader(last_closed'[1])>>
               \o last_closed'[1].output.lines
               \o <<HashLine("subend", <<>>, NoTitle, "")>>
        /\ ~fold_env'.output.open
        /\ Cardinality(DividersIn(fold_env'.ret.lines))
             = Cardinality(DividersIn(fold_env.parent_fold[1].ret.lines))
        /\ Cardinality(DividersIn(fold_env'.output.lines))
             = Cardinality(DividersIn(fold_env.parent_fold[1].output.lines)) ]_vars

\* a child with a request line has been closed: its request was issued and
\* the parent holds the rendered child in its raw input and the reduced
\* RESULT block with the response in its output
C11_Witness ==
  /\ fold_started
  /\ cur = EndC
  /\ last_closed # <<>>
  /\ last_closed[1].issued = 1
  /\ ~last_closed[1].error
  /\ fold_env.ret.lines = <<WithExecuted(StartA, "SUCCESS"), RequestLine, EndC>>
  /\ Len(fold_env.output.lines) = 3
  /\ fold_env.output.lines[1] = HashLine("subhdr", <<>>, [cond |-> <<>>, name |-> TitleA], "RESULT")
  /\ fold_env.output.lines[3] = HashLine("subend", <<>>, NoTitle, "")

\* C12: no step taken while a child fold is open changes the suspended
\* parent chain; a start marker suspends the current fold with its ancestors
\* untouched; when the child closes the parent is the current fold again,
\* changed only in its raw input, its output and its error flag.
C12_ParentRestored ==
  [][ /\ (fold_started /\ pc = "reading" /\ ~OpensFold /\ ~ClosesFold) =>
           fold_env'.parent_fold = fold_env.parent_fold
      /\ (OpensFold /\ fold_started) =>
           /\ fold_env'.parent_fold # <<>>
           /\ fold_env'.parent_fold[1] =
                [fold_env EXCEPT !.made_request = fold_env'.parent_fold[1].made_request,
                                 !.issued = fold_env'.parent_fold[1].issued,
                                 !.output = fold_env'.parent_fold[1].output,
                                 !.error = fold_env'.parent_fold[1].error]
      /\ ClosesNested =>
           /\ last_closed'[1].parent_fold = fold_env.parent_fold
           /\ fold_env' = [fold_env.parent_fold[1] EXCEPT !.ret = fold_env'.ret,
                                                         !.output = fold_env'.output,
                                                         !.error = fold_env'.error] ]_vars

\* a fold with an issued request was suspended, its child executed @x = 1
\* and was closed: the fold is current again with its request fields
C12_Witness ==
  /\ fold_started
  /\ cur = EndC
  /\ fold_env.parent_fold = <<>>
  /\ last_closed # <<>>
  /\ last_closed[1].parent_fold # <<>>
  /\ last_closed[1].ret.lines = <<AssignOk>>
  /\ fold_env.request_started
  /\ fold_env.made_request
  /\ fold_env.url = <<"u">>
  /\ fold_env.issued = 1
  /\ fold_env.ret # last_closed[1].parent_fold[1].ret
  /\ fold_env = [last_closed[1].parent_fold[1] EXCEPT !.ret = fold_env.ret,
                                                     !.output = fold_env.output,
                                                     !.error = fold_env.error]

(***************************************************************************)
(* C13: a top-level fold of assignments.                                   *)
(***************************************************************************)
\* the top-level fold the step closes holds assignment lines only, at least
\* one, and none of them failed
ClosesAssignments ==
  /\ ClosesTop
  /\ fold_env.ret.lines # <<>>
  /\ \A i \in DOMAIN fold_env.ret.lines : fold_env.ret.lines[i].k = "assign"
  /\ ~last_closed'[1].error

\* the rendering appended: start marker, the lines as read, the divider, one
\* result line for each line read, in the same order, and the end marker;
\* a result line is the line read with its value replaced (as_written) or
\* "@name = value" built anew
AssignmentsRendered(as_written) ==
  LET n == Len(fold_env.ret.lines)
      ResultOf(line, value) ==
        IF as_written THEN [line EXCEPT !.val = value] ELSE AssignLine(line.name, value)
      NoSpan(v) == \A j \in DOMAIN v : v[j] \notin {"{{", "}}"}
  IN /\ Len(NewLines) = 2 * n + 3
     /\ NewLines[1] = WithExecuted(fold_env.start_marker, "SUCCESS")
     /\ SubSeq(NewLines, 2, n + 1) = fold_env.ret.lines
     /\ NewLines[n + 2] = DividerLine(fold_env.title, "RESULT")
     /\ \A i \in 1 .. n :
          /\ NewLines[n + 2 + i] = ResultOf(fold_env.ret.lines[i], NewLines[n + 2 + i].val)
          /\ NoSpan(NewLines[n + 2 + i].val)
          /\ NoSpan(fold_env.ret.lines[i].val) =>
               NewLines[n + 2 + i].val = fold_env.ret.lines[i].val
     /\ NewLines[2 * n + 3] = cur'

\* the value written on the result line of an assignment that succeeded is
\* the JSON text of the value stored under the name
ResultIsStored ==
  (BodyStep /\ cur'.k = "assign" /\ ~fold_env.error /\ ~fold_env'.error) =>
    /\ cur'.name \in DOMAIN env'
    /\ from_str(LastOf(fold_env'.output.lines).val) = Ok(env'[cur'.name])

\* C13 as stated: the result section repeats each line as it was written,
\* its value substituted.
C13_AssignmentsVerbatim ==
  [][ ClosesAssignments =>
        AssignmentsRendered(TRUE) ]_vars

\* C13: a top-level fold of assignments that all succeed is rendered as its
\* start marker with " executed (SUCCESS)", the lines as written with their
\* {{...}} spans, the divider with RESULT, one line "@name = value" for each
\* assignment in source order, written with one space on each side of '='
\* whatever the spacing of the line read, its value holding no {{...}} span
\* and being the text of the value stored, and the end marker.
C13_AssignmentsNormalised ==
  [][ /\ ClosesAssignments =>
           AssignmentsRendered(FALSE)
      /\ ResultIsStored ]_vars

\* "###{ a / @x=1 / @i = {{.i +1}} / @i = {{.i +1}} / ###} c" has been read
C13_Witness ==
  /\ ~fold_started
  /\ last_closed # <<>>
  /\ ret.lines = <<WithExecuted(StartA, "SUCCESS"), AssignTight, AssignInc, AssignInc,
                   DividerLine([cond |-> <<>>, name |-> TitleA], "RESULT"),
                   AssignOk, AssignLine("i", <<"1">>), AssignLine("i", <<"2">>), EndC>>

(***************************************************************************)
(* C14 - C19: the While construct.  The claims are stated on the runs of   *)
(* parse_input on the captured block, one after the other from the         *)
(* Environment the while block was met in.                                 *)
(***************************************************************************)
\* the Environment the step starts in
EnvNow == [env |-> env, file |-> file, log |-> log]

\* the Environment after j runs of parse_input on the block of w, the first
\* of them in g (process_while.rs 108)
RECURSIVE AfterRuns(_, _, _)
AfterRuns(w, g, j) ==
  IF j = 0 THEN g
  ELSE parse_input(LinesOf(w.block), AfterRuns(w, g, j - 1), TRUE, IoOk).g

\* the rendering the j-th of these runs returns
Rendering(w, g, j) ==
  parse_input(LinesOf(w.block), AfterRuns(w, g, j - 1), TRUE, IoOk).out

\* the condition of w, substituted after j runs (process_while.rs 161)
Condition(w, g, j) == parse_selectors(w.condition, AfterRuns(w, g, j).env)

ConditionTrue(w, g, j) == Condition(w, g, j).ok /\ Condition(w, g, j).val = <<"true">>

\* the first line of the rendering of the j-th run ends with "(ERROR)"
RunErrs(w, g, j) ==
  /\ ~IsEmpty(Rendering(w, g, j))
  /\ EndsWithError(LinesOf(Rendering(w, g, j))[1])

\* the loop of While::run gets to its k-th run: the condition was "true" k
\* times in a row and none of the runs before the k-th ended in an error
Iterates(w, g, k) ==
  /\ \A j \in 0 .. (k - 1) : ConditionTrue(w, g, j)
  /\ \A j \in 1 .. (k - 1) : ~RunErrs(w, g, j)

\* the step leaves the Environment as k runs of the block leave it
RanTimes(w, k) ==
  /\ env' = AfterRuns(w, EnvNow, k).env
  /\ file' = AfterRuns(w, EnvNow, k).file
  /\ log' = AfterRuns(w, EnvNow, k).log

\* C14: when the condition of a while block substitutes to "true" k >= 1
\* times in a row and then to another text, and no run of the block ends in
\* an error, the block is run exactly k times, each run in the Environment
\* the one before left, and the output of the While is the rendering of the
\* k-th run; the While has no error.
C14_LastIterationKept ==
  [][ WhileRead =>
        \A k \in 1 .. MaxIter :
          ( /\ Iterates(last_while'[1], EnvNow, k)
            /\ ~RunErrs(last_while'[1], EnvNow, k)
            /\ Condition(last_while'[1], EnvNow, k).ok
            /\ ~ConditionTrue(last_while'[1], EnvNow, k) ) =>
          /\ RanTimes(last_while'[1], k)
          /\ last_while'[1].output = Rendering(last_while'[1], EnvNow, k)
          /\ ~last_while'[1].error
          /\ pc' = "reading" ]_vars

\* "###{ while {{.i <2}} / @i = {{.i +1}} / ###} endwhile" met with i not
\* defined: two runs, the output is the rendering of the second
C14_Witness ==
  /\ last_while # <<>>
  /\ ~fold_started
  /\ cur = WhileStart
  /\ ~last_while[1].error
  /\ "i" \in DOMAIN env
  /\ env["i"] = Num(2)
  /\ Len(log) = 2
  /\ last_while[1].output.lines =
       <<WithExecuted(WhileStart, "SUCCESS"), AssignInc,
         DividerLine(TitleOf(WhileStart), "RESULT"), AssignLine("i", <<"2">>), WhileEnd>>
  /\ ret = last_while[1].output

\* the rendering made of the block of w alone: its first line with the
\* status, the lines between its first and its last line, the divider with
\* the title, the message if there is one, and its last line
Synthetic(w, error, message) ==
  [lines |-> <<WithExecuted(StripStatus(LinesOf(w.block)[1]), Status(error))>>
               \o SubSeq(LinesOf(w.block), 2, Len(LinesOf(w.block)) - 1)
               \o <<DividerLine(TitleOf(StripStatus(LinesOf(w.block)[1])),
                                ResultWord(error))>>
               \o message.lines
               \o <<LastOf(LinesOf(w.block))>>,
   open |-> TRUE]

\* C15: a while block whose condition substitutes, on its first evaluation,
\* to a text that is not "true" runs its body zero times, leaves the
\* Environment as it was, has no error, and its output is the synthetic
\* rendering with SUCCESS / RESULT and nothing between the divider and the
\* last line.  When an evaluation of the condition fails, the first one or
\* one after j runs, no run follows it, the Environment is as the j runs
\* left it, the error flag is set, and the output is the synthetic rendering
\* with ERROR whose result section is the message of the failed evaluation.
C15_SyntheticRendering ==
  [][ WhileRead =>
        /\ (Condition(last_while'[1], EnvNow, 0).ok
              /\ ~ConditionTrue(last_while'[1], EnvNow, 0)) =>
             /\ RanTimes(last_while'[1], 0)
             /\ ~last_while'[1].error
             /\ last_while'[1].output = Synthetic(last_while'[1], FALSE, EmptyText)
        /\ \A j \in 0 .. MaxIter :
             (Iterates(last_while'[1], EnvNow, j)
                /\ ~Condition(last_while'[1], EnvNow, j).ok) =>
               /\ RanTimes(last_while'[1], j)
               /\ last_while'[1].error
               /\ last_while'[1].output =
                    Synthetic(last_while'[1], TRUE, Condition(last_while'[1], EnvNow, j).err) ]_vars

\* "###{ while {{.go}} / @go = false / ###} endwhile" met with go not
\* defined: the evaluation fails, nothing is assigned
C15_Witness ==
  /\ last_while # <<>>
  /\ cur = WhileGo
  /\ last_while[1].error
  /\ "go" \notin DOMAIN env
  /\ log = <<>>
  /\ Len(last_while[1].output.lines) = 5
  /\ last_while[1].output.lines[1] = WithExecuted(WhileGo, "ERROR")
  /\ last_while[1].output.lines[2] = GoFalse
  /\ last_while[1].output.lines[3] = DividerLine(TitleOf(WhileGo), "ERROR")
  /\ LineStr(last_while[1].output.lines[4])
       = io_error(<<"failed to get resource at ", ".", "go">>)
  /\ last_while[1].output.lines[5] = WhileEnd

\* C16: when the k-th run of a while block is the first whose rendering
\* begins with a line ending in "(ERROR)", the error flag of the While is
\* set, the block is run k times and no more, and the output of the While is
\* the rendering of the k-th run.
C16_StopsOnError ==
  [][ WhileRead =>
        \A k \in 1 .. MaxIter :
          (Iterates(last_while'[1], EnvNow, k) /\ RunErrs(last_while'[1], EnvNow, k)) =>
            /\ last_while'[1].error
            /\ RanTimes(last_while'[1], k)
            /\ last_while'[1].output = Rendering(last_while'[1], EnvNow, k) ]_vars

\* C17: the block parse_while captures begins with the line that triggered
\* it and holds every line consumed; the count of open while blocks, 1 after
\* the first line, +1 for a while-start and -1 for a while-end line, is 0
\* after the last line of the block and above 0 after every line before;
\* whatever follows the block in the input is left unread and does not
\* change the While; and a while block within the block runs in every run
\* of the outer one: NestedBlock executes its three assignments, the one of
\* the inner block among them, once in each outer run.
C17_BalancedBlock ==
  [][ WhileRead =>
        LET num_loops(b, i) ==
              1 + Cardinality({j \in 2 .. i : IsWhileStart(b[j])})
                - Cardinality({j \in 2 .. i : IsWhileEnd(b[j])})
            Balanced(b) ==
              /\ b[1] = cur'
              /\ Len(b) = nread' - nread
              /\ num_loops(b, Len(b)) = 0
              /\ \A i \in 1 .. (Len(b) - 1) : num_loops(b, i) > 0
              /\ \A after \in {<<AssignOk>>, <<WhileEnd>>, <<WhileStart, AssignInc, WhileEnd>>} :
                   /\ parse_while(cur', Tail(b) \o after, EnvNow, IoOk).rest = after
                   /\ parse_while(cur', Tail(b) \o after, EnvNow, IoOk).w = last_while'[1]
            InTurn(added) ==
              /\ Len(added) % 3 = 0
              /\ \A n \in 1 .. Len(added) :
                   /\ added[n].ok
                   /\ (n % 3 = 1) => added[n].line = GoTrue
                   /\ (n % 3 = 2) => added[n].line = GoFalse
                   /\ (n % 3 = 0) => added[n].line.name = "i"
        IN /\ Balanced(LinesOf(last_while'[1].block))
           /\ (LinesOf(last_while'[1].block) = NestedBlock /\ pc' = "reading") =>
                InTurn(SubSeq(log', Len(log) + 1, Len(log'))) ]_vars

\* NestedBlock has been read with i not defined: two outer runs, the inner
\* block ran once in each
C17_Witness ==
  /\ last_while # <<>>
  /\ LinesOf(last_while[1].block) = NestedBlock
  /\ Len(log) = 6
  /\ log[2].line = GoFalse
  /\ log[5].line = GoFalse
  /\ env["i"] = Num(2)
  /\ env["go"] = Bool(FALSE)
  /\ ~last_while[1].error

\* C18: parse_input called with ignore_first_while = true on a captured
\* block treats the first line, the while-start line of the block, as the
\* start marker of a fold: it opens the fold, runs no While and changes
\* nothing of the Environment, and the rendering of the run begins with that
\* line as an executed start marker.  The next while-start line of the block
\* is delegated: reading on to its matching end is one call of parse_while
\* on a block that is shorter than the outer one.  With ignore_first_while =
\* false the first line itself is delegated.
C18_FirstWhileIgnored ==
  [][ WhileRead =>
        LET Q(b, n, ignore) == RunInput(ParseState_new(EnvNow), SubSeq(b, 1, n), ignore, IoOk).P
            Inner(b) == {i \in 2 .. Len(b) : IsWhileStart(b[i])}
            First(b) == CHOOSE i \in Inner(b) : \A j \in Inner(b) : i <= j
            EndOf(b, i) == i + BlockLen(SubSeq(b, i + 1, Len(b)), 1, 1)
            Delegated(b, i) ==
              /\ EndOf(b, i) - i + 1 < Len(b)
              /\ Q(b, i - 1, TRUE).last_while = <<>>
              /\ Q(b, EndOf(b, i), TRUE)
                   = WhileStep(Q(b, i - 1, TRUE), b[i],
                               SubSeq(b, i + 1, EndOf(b, i)), IoOk).P
              /\ Q(b, EndOf(b, i), TRUE).last_while # <<>>
            Ignored(b) ==
              /\ Q(b, 1, TRUE)
                   = [OpenFold(ParseState_new(EnvNow), b[1], IoOk) EXCEPT !.first_while = FALSE]
              /\ Q(b, 1, TRUE).fold_started
              /\ Q(b, 1, TRUE).last_while = <<>>
              /\ Q(b, 1, TRUE).g = EnvNow
              /\ ~IsEmpty(Rendering(last_while'[1], EnvNow, 1)) =>
                   LinesOf(Rendering(last_while'[1], EnvNow, 1))[1]
                     \in ExecutedForms(StripStatus(b[1]))
              /\ Q(b, Len(b), FALSE).last_while = <<last_while'[1]>>
              /\ Inner(b) # {} => Delegated(b, First(b))
        IN Ignored(LinesOf(last_while'[1].block)) ]_vars

\* NestedBlock has been read in an open fold: the lines of the outer block
\* are in the raw input of the fold as the rendering of a fold
C18_Witness ==
  /\ last_while # <<>>
  /\ LinesOf(last_while[1].block) = NestedBlock
  /\ fold_started
  /\ fold_env.ret.lines # <<>>
  /\ fold_env.ret.lines[1] = WithExecuted(WhileStart, "SUCCESS")
  /\ WithExecuted(WhileGo, "SUCCESS") \in {fold_env.ret.lines[i] : i \in DOMAIN fold_env.ret.lines}

\* C19: While::compile_return of the While a step ran returns the pair made
\* of (input) the lines of its output before the first divider line and the
\* last line, and (output) the first line as "### <title> RESULT|ERROR"
\* after the error flag, the lines after the first divider but the last
\* line, and the last line as "###<rest>"; no divider line is in either; the
\* pair is a function of the While alone, and inside an open fold it is
\* what the step appends to the raw input and the output of the fold.
C19_WhileSplit ==
  [][ WhileRead =>
        LET Div(ls) == CHOOSE d \in 1 .. Len(ls) :
                         IsDivider(ls[d]) /\ \A j \in 1 .. (d - 1) : ~IsDivider(ls[j])
            Kept(ls) == SelectSeq(ls, LAMBDA l : ~IsDivider(l))
            Header(l, error) ==
              HashLine("subhdr", <<>>, [cond |-> l.cond, name |-> l.name], ResultWord(error))
            Footer(l) ==
              HashLine("subend", IF l.rest = "" THEN <<>> ELSE <<l.rest>>, NoTitle, "")
            Input(ls) ==
              [lines |-> SubSeq(ls, 1, Div(ls) - 1) \o <<LastOf(ls)>>, open |-> TRUE]
            Output(ls, error) ==
              [lines |-> <<Header(ls[1], error)>>
                           \o Kept(SubSeq(ls, Div(ls) + 1, Len(ls) - 1))
                           \o <<Footer(LastOf(ls))>>,
               open |-> TRUE]
            Split(w, ls) ==
              /\ Len(ls) >= 3
              /\ ls[1].k = "start"
              /\ LastOf(ls).k = "end"
              /\ \E d \in 2 .. (Len(ls) - 1) : IsDivider(ls[d])
              /\ While_compile_return(w) = [ret |-> Input(ls), out |-> Output(ls, w.error)]
              /\ DividersIn(Input(ls).lines) = {}
              /\ DividersIn(Output(ls, w.error).lines) = {}
              /\ fold_started =>
                   /\ fold_env'.ret = PushStr(fold_env.ret, Input(ls))
                   /\ fold_env'.output = PushStr(fold_env.output, Output(ls, w.error))
              /\ ~fold_started => ret' = PushStr(ret, w.output)
        IN Split(last_while'[1], LinesOf(last_while'[1].output)) ]_vars

\* "###{ a" and then the block of '@i = {{.i +1}}' under 'while {{.i <2}}'
C19_Witness ==
  /\ last_while # <<>>
  /\ fold_started
  /\ nread = 4
  /\ fold_env.ret.lines = <<WithExecuted(WhileStart, "SUCCESS"), AssignInc, WhileEnd>>
  /\ fold_env.ret.open
  /\ fold_env.output.lines =
       <<HashLine("subhdr", <<>>, TitleOf(WhileStart), "RESULT"),
         AssignLine("i", <<"2">>),
         HashLine("subend", <<"endwhile">>, NoTitle, "")>>

(***************************************************************************)
(* C20: substitution from the inside out.  A template is written here as a *)
(* sequence of nodes, a node being a token or a span {{...}} of nodes; the  *)
(* string parse_selectors is given is the sequence flattened.               *)
(***************************************************************************)
\* C20: in every Environment a run builds and for every template of a set
\* with spans nested up to three deep, side by side, and failing: one pass
\* of replace_all replaces exactly the spans that hold no span, each by the
\* value of its own selector, and leaves every other token, the braces of
\* the outer spans among them; the pass fails iff one of these spans fails;
\* the result of parse_selectors is that of parse_selectors on the text the
\* pass left, and it is the value of the template read from the inside
\* out: a span is the value of the selector its content, once substituted,
\* spells.  With k = "a", num = 1 and a1 = "success" the template
\* "{{.{{.k}}{{.num}}}}" is "{{.a1}}" after one pass and "success" at the end.
C20_InnermostFirst ==
  LET Tok(s) == [t |-> "tok", s |-> s]
      Span(c) == [t |-> "span", c |-> c]
      Sel(key) == Span(<<Tok("."), Tok(key)>>)
      Templates ==
        {<<Tok("x")>>,
         <<Sel("k")>>,
         <<Sel("dne")>>,
         <<Span(<<Tok("."), Sel("k")>>)>>,
         <<Span(<<Tok("."), Sel("k"), Sel("num")>>)>>,
         <<Sel("num"), Tok(" "), Span(<<Tok("."), Sel("k"), Sel("num")>>), Sel("a")>>,
         <<Span(<<Tok("."), Sel("k"), Sel("dne")>>)>>,
         <<Span(<<Tok("."), Span(<<Tok("."), Sel("k")>>)>>)>>}
      IsLeaf(n) == n.t = "span" /\ \A i \in DOMAIN n.c : n.c[i].t = "tok"
      Toks(c) == [i \in DOMAIN c |-> c[i].s]
      Nodes(ts) == [i \in DOMAIN ts |-> Tok(ts[i])]
      Subst(r) == IF r.ok THEN SubstText(r.val) ELSE <<"ERR">>
      RECURSIVE Flat(_), Reduce(_), Fails(_), Value(_)
      Flat(c) ==
        IF c = <<>> THEN <<>>
        ELSE (IF Head(c).t = "tok" THEN <<Head(c).s>>
              ELSE <<"{{">> \o Flat(Head(c).c) \o <<"}}">>) \o Flat(Tail(c))
      Reduce(c) ==
        IF c = <<>> THEN <<>>
        ELSE (IF Head(c).t = "tok" THEN <<Head(c)>>
              ELSE IF IsLeaf(Head(c)) THEN Nodes(Subst(evaluate(Toks(Head(c).c), env)))
              ELSE <<Span(Reduce(Head(c).c))>>) \o Reduce(Tail(c))
      Fails(c) ==
        \E i \in DOMAIN c :
          /\ c[i].t = "span"
          /\ IF IsLeaf(c[i]) THEN ~evaluate(Toks(c[i].c), env).ok ELSE Fails(c[i].c)
      Selected(r) == [ok |-> r.ok, toks |-> Subst(r)]
      Inner(v) == IF v.ok THEN Selected(evaluate(v.toks, env)) ELSE v
      Joined(a, b) == [ok |-> a.ok /\ b.ok, toks |-> a.toks \o b.toks]
      Value(c) ==
        IF c = <<>> THEN [ok |-> TRUE, toks |-> <<>>]
        ELSE Joined(IF Head(c).t = "tok" THEN [ok |-> TRUE, toks |-> <<Head(c).s>>]
                    ELSE Inner(Value(Head(c).c)),
                    Value(Tail(c)))
      InsideOut(c, pass, res) ==
        /\ pass.toks = Flat(Reduce(c))
        /\ pass.failed = Fails(c)
        /\ ~pass.failed => res = parse_selectors(pass.toks, env)
        /\ res.ok = Value(c).ok
        /\ res.ok => res.val = Value(c).toks
      Example(pass, res) ==
        ({"k", "num", "a1"} \subseteq DOMAIN env
           /\ env["k"] = Str(<<"a">>) /\ env["num"] = Num(1)
           /\ env["a1"] = Str(<<"success">>)) =>
          /\ pass.toks = <<Quote, "{{", ".", "a", "1", "}}", Quote>>
          /\ res = Ok(<<Quote, "success", Quote>>)
  IN /\ \A c \in Templates :
          InsideOut(c, ReplaceAll(Flat(c), 1, env), parse_selectors(Flat(c), env))
     /\ Example(ReplaceAll(NestedSelector, 1, env), parse_selectors(NestedSelector, env))

\* '@r = "{{.{{.k}}{{.num}}}}"' has been executed after k, num and a1 were
\* assigned
C20_Witness ==
  /\ fold_started
  /\ cur = AssignLine("r", NestedSelector)
  /\ log # <<>>
  /\ log[Len(log)] = [ok |-> TRUE, line |-> AssignLine("r", <<Quote, "success", Quote>>)]
  /\ "r" \in DOMAIN env
  /\ env["r"] = Str(<<"success">>)
  /\ LastOf(fold_env.output.lines) = AssignLine("r", <<Quote, "success", Quote>>)

(***************************************************************************)
(* C21 - C23: parse_selectors and evaluate on the Environments the env     *)
(* files and the assignments of SpecStore give.                            *)
(***************************************************************************)
\* C21: for every template of a set (no span, spans that succeed, a span
\* that fails next to one that succeeds, a span that fails in the second
\* pass, braces that form no span) and every Environment: the result of
\* parse_selectors, when it is Ok, has no span and none of the ERR
\* placeholders; when the first n passes succeed and leave spans and a span
\* of pass n + 1 fails, the result is the error of a failing span of that
\* pass; a template without span is returned as it is.  No text with an ERR
\* placeholder reaches the output of a fold, the document returned or the
\* Environment, and every line define_var answered with has no span.
C21_AllOrNothing ==
  LET Templates ==
        {AssignOk.val, AssignBad.val, AssignVia.val, AssignPart.val, AssignLate.val,
         NestedSelector, <<"a", "}}", "{{", "b">>, <<"{{", "}}">>,
         <<"{{", ".", "q", "}}", "{{", ".", "p", "}}", "{{", ".", "x", "}}">>}
      Has(toks, tok) == \E i \in 1 .. Len(toks) : toks[i] = tok
      SpanFails(t, i) ==
        SpanAt(t, i) /\ ~evaluate(SubSeq(t, i + 1, NextBrace(t, i) - 1), env).ok
      Fails(t) == \E i \in 1 .. Len(t) : SpanFails(t, i)
      ErrorOf(t, r) ==
        /\ ~r.ok
        /\ \E i \in 1 .. Len(t) :
             /\ SpanFails(t, i)
             /\ r.err = evaluate(SubSeq(t, i + 1, NextBrace(t, i) - 1), env).err
      RECURSIVE FirstFailure(_, _, _)
      FirstFailure(t, n, r) ==
        IF Fails(t) THEN ErrorOf(t, r)
        ELSE IF HasSpan(t) /\ n < MaxPass
          THEN FirstFailure(ReplaceAll(t, 1, env).toks, n + 1, r)
        ELSE TRUE
      AllOrNothing(t, r) ==
        /\ r.ok => ~HasSpan(r.val) /\ ~Has(r.val, "ERR")
        /\ FirstFailure(t, 0, r)
        /\ ~HasSpan(t) => r.ok /\ r.val = t
      Clean(text) ==
        \A i \in 1 .. Len(text.lines) :
          /\ text.lines[i].k = "assign" => ~Has(text.lines[i].val, "ERR")
          /\ text.lines[i].k = "text" => ~Has(text.lines[i].toks, "ERR")
  IN /\ \A t \in Templates : AllOrNothing(t, parse_selectors(t, env))
     /\ Clean(ret) /\ Clean(fold_env.output)
     /\ IsObject(env) =>
          \A k \in DOMAIN env : env[k].t = "str" => ~Has(env[k].s, "ERR")
     /\ \A i \in 1 .. Len(log) : log[i].ok => ~HasSpan(log[i].line.val)

\* '@m = "{{.q}}{{.dne}}"' was executed with q = 1 stored: the answer is the
\* error of .dne and nothing was stored under m
C21_Witness ==
  /\ cur = AssignPart
  /\ file = StoredSelectors
  /\ log # <<>>
  /\ ~log[Len(log)].ok
  /\ fold_env.error
  /\ LastOf(fold_env.output.lines) =
       TextLine(<<"failed to get resource at ", ".", "dne">>)
  /\ "m" \notin DOMAIN env

\* C22: in every Environment none of whose values holds a brace pair, every
\* template of the set is settled in as many passes as its spans are nested
\* deep, plus one; for every key whose value holds a span, the pass over
\* the selector of that key succeeds and leaves a text with a span, and
\* the result is that of parse_selectors on that text; when the value is
\* the selector itself the pass returns the text it was given, so no number
\* of passes ends the substitution.  The program hangs only in such an
\* Environment.
C22_PassesRepeat ==
  LET Templates ==
        {AssignOk.val, AssignBad.val, AssignVia.val, AssignSelf.val, AssignPart.val,
         AssignLate.val, NestedSelector}
      MaxNested == 2
      Holds(v) == v.t = "str" /\ \E i \in 1 .. Len(v.s) : v.s[i] \in {"{{", "}}"}
      Plain == IsObject(env) => \A k \in DOMAIN env : ~Holds(env[k])
      Hung(r) == ~r.ok /\ r.err = io_error(<<"diverges">>)
      Same(a, b) == a.ok = b.ok /\ (IF a.ok THEN a.val = b.val ELSE a.err = b.err)
      Settled(t) ==
        /\ ~Hung(SelectorPasses(t, env, MaxNested))
        /\ \A fuel \in MaxNested .. MaxPass :
             Same(SelectorPasses(t, env, fuel), SelectorPasses(t, env, MaxNested))
      Again(t, pass) ==
        /\ ~pass.failed
        /\ HasSpan(pass.toks)
        /\ \A fuel \in 1 .. MaxPass :
             Same(SelectorPasses(t, env, fuel), SelectorPasses(pass.toks, env, fuel - 1))
        /\ pass.toks = t =>
             \A fuel \in 0 .. MaxPass : Hung(SelectorPasses(t, env, fuel))
      Selector(k) == <<"{{", ".", k, "}}">>
  IN /\ Plain => \A t \in Templates : Settled(t)
     /\ IsObject(env) =>
          \A k \in DOMAIN env :
            (env[k].t = "str" /\ HasSpan(env[k].s)) =>
              /\ ReplaceAll(Selector(k), 1, env).toks = env[k].s
              /\ Again(Selector(k), ReplaceAll(Selector(k), 1, env))
     /\ pc = "hung" => ~Plain

\* '@w = "{{.s}}"' was executed with s = "{{.s}}" stored: the substitution
\* has not come to an end
C22_Witness ==
  /\ pc = "hung"
  /\ cur = AssignSelf
  /\ "s" \in DOMAIN env
  /\ env["s"] = Str(<<"{{", ".", "s", "}}">>)
  /\ ReplaceAll(AssignSelf.val, 1, env).toks = AssignSelf.val

Assigned == Len(log') = Len(log) + 1 /\ log'[Len(log')].ok

AssignFailed == Len(log') = Len(log) + 1 /\ ~log'[Len(log')].ok

\* what C24 says of the step but for the evaluation afterwards: the value
\* of the line substitutes, the text parses as JSON, the Environment after
\* the step has the keys it had and the name, the name holds the parsed
\* value, every other key what it held, the env file is the Environment,
\* and the line answered is "@name = " followed by the substituted text
StoredBy(line, sub) ==
  LET Parsed(value) ==
        /\ value.ok
        /\ DOMAIN env' = DOMAIN env \cup {line.name}
        /\ env'[line.name] = value.val
        /\ \A k \in DOMAIN env \ {line.name} : env'[k] = env[k]
        /\ file' = env'
  IN /\ sub.ok
     /\ Parsed(from_str(sub.val))
     /\ log'[Len(log')].line =
          [k |-> "assign", name |-> line.name, val |-> sub.val, sep |-> " = "]

\* C24 as stated: after every successful assignment the Environment is as
\* above and evaluate on ".name" returns the value stored.
C24_AssignStoresReadable ==
  [][Assigned =>
       /\ StoredBy(cur', parse_selectors(cur'.val, env))
       /\ evaluate(<<".", cur'.name>>, env') = Ok(env'[cur'.name])]_vars

\* C24 amended: after every successful assignment the Environment is as
\* above; evaluate on ".name" returns the value stored unless that value is
\* null, and then it fails with "failed to get resource at .name".
C24_AssignStores ==
  [][Assigned =>
       /\ StoredBy(cur', parse_selectors(cur'.val, env))
       /\ evaluate(<<".", cur'.name>>, env') =
            IF env'[cur'.name] = Null
              THEN Err(io_error(<<"failed to get resource at ", ".", cur'.name>>))
              ELSE Ok(env'[cur'.name])]_vars

\* '@v = "{{.p}}"' was executed with p = "{{.q}}" and q = 1 stored: v holds
\* the string 1 next to the keys of the env file
C24_Witness ==
  /\ cur = AssignVia
  /\ log # <<>>
  /\ log[Len(log)] = [ok |-> TRUE, line |-> AssignLine("v", <<Quote, "1", Quote>>)]
  /\ DOMAIN env = {"s", "p", "q", "v"}
  /\ env["v"] = Str(<<"1">>)
  /\ env["q"] = Num(1)
  /\ file = env

(***************************************************************************)
(* C25 - C27: the Environment and the env file, with an env file of any    *)
(* content at the start and writes that may fail.                          *)
(***************************************************************************)
\* C25: in every step in which define_var returned an error, whatever the
\* cause, the Environment and the env file are after the step what they
\* were before it.
C25_FailedAssignmentLeavesNoTrace ==
  [][AssignFailed => env' = env /\ file' = file]_vars

\* C26: in every state the root of the Environment is an object.
C26_RootIsObject == IsObject(env)

\* the step issued the request of a fold that names a response variable,
\* and the fold is not in error after it
Captures ==
  /\ Successor.issued = fold_env.issued + 1
  /\ Successor.response_variable # ""
  /\ ~Successor.error

\* C27: a step that changes the Environment or the env file is a successful
\* assignment or a response capture, and after it the env file is the
\* Environment; every other step leaves both as they are.
C27_MutatedAndPersisted ==
  [][(env' # env \/ file' # file) => (Assigned \/ Captures) /\ file' = env']_vars

(***************************************************************************)
(* C28 - C30: the request of a fold.  A step issues the request of the     *)
(* current fold when the fold's count of issued requests grows; the fold   *)
(* before the step is fold_env, after it Successor, and the Environment    *)
(* the request is built from is env.                                       *)
(***************************************************************************)
Issues == Successor.issued = fold_env.issued + 1

\* the tokens of the command line: the arguments joined by single spaces
RECURSIVE Joined(_)
Joined(args) ==
  IF args = <<>> THEN <<>>
  ELSE IF Len(args) = 1 THEN Head(args)
  ELSE Head(args) \o <<" ">> \o Joined(Tail(args))

\* C28: a request line (a method, a space and a URL), a header line, a line
\* of the body and a form flag read in a fold without error are stored as
\* they are written, spans included, and the step neither issues the
\* request nor sets the error flag nor writes to the output nor changes the
\* Environment, whatever the Environment holds; a step
\* that issues the request leaves the stored templates as they are, fails
\* exactly when one of them does not substitute in the Environment of that
\* step (with curl answering), and in debug mode prints the URL as
\* substituted in the Environment of that step.
C28_SubstitutedAtIssue ==
  [][LET Raw(f0, f1, l) ==
            /\ (l.k = "text" /\ ~f0.request_started /\ SpaceAt(l.toks) # 0) =>
                 f1.url = SubSeq(l.toks, SpaceAt(l.toks) + 1, Len(l.toks))
            /\ (l.k = "text" /\ f0.request_started /\ ~f0.request_body_started) =>
                 f1.headers = Append(f0.headers, l.toks)
            /\ (l.k = "text" /\ f0.request_body_started) =>
                 f1.request_body = f0.request_body \o l.toks
            /\ (l.k = "hash" /\ l.flag = "form") =>
                 f1.multipart_forms = Append(f0.multipart_forms, l.arg)
            /\ (\/ l.k = "hash"
                \/ l.k \in {"text", "blank"} /\ f0.request_started
                \/ l.k = "text" /\ SpaceAt(l.toks) # 0) =>
                 /\ f1.issued = f0.issued
                 /\ f1.error = f0.error
                 /\ f1.output.lines = f0.output.lines
                 /\ env' = env
          Bad(list) == \E i \in 1 .. Len(list) : ~parse_selectors(list[i], env).ok
          Fails(f) ==
            \/ ~parse_selectors(f.url, env).ok
            \/ Bad(f.headers)
            \/ Bad(f.multipart_forms)
            \/ f.request_body_started /\ ~parse_selectors(f.request_body, env).ok
          UrlOf(text, url) ==
            \E i \in 1 .. Len(text.lines) :
              /\ text.lines[i].k = "text"
              /\ Head(text.lines[i].toks) = "curl"
              /\ SubSeq(text.lines[i].toks, 7, 6 + Len(url.val)) = url.val
          AtIssue(f0, f1) ==
            /\ f1.url = f0.url
            /\ f1.headers = f0.headers
            /\ f1.multipart_forms = f0.multipart_forms
            /\ f1.request_body = f0.request_body
            /\ Fails(f0) => f1.error
            /\ (f1.error /\ f0.is_debug) => Fails(f0)
            /\ (~Fails(f0) /\ f0.is_debug) => UrlOf(f1.output, parse_selectors(f0.url, env))
      IN /\ (BodyStep /\ ~fold_env.error /\ ~fold_env.old_output_started) =>
              Raw(fold_env, fold_env', cur')
         /\ Issues => AtIssue(fold_env, Successor)]_vars

\* the fold '###{ a', '# @debug', 'GET u{{.x}}', '@x = 1', '###} c' was run
\* on the env file "{}": x was not defined when the request line was read,
\* and the command line shows u1
C28_Witness ==
  /\ cur = EndC
  /\ file = [k \in {"x"} |-> Num(1)]
  /\ last_closed # <<>>
  /\ last_closed[1].ret.lines = <<DebugFlag, ReqX, AssignOk>>
  /\ last_closed[1].url = <<"u", "{{", ".", "x", "}}">>
  /\ ~last_closed[1].error
  /\ TextLine(<<"curl", " ", "-k", " ", "--include", " ", "u", "1", " ", "-X", " ", "GET">>)
       \in {last_closed[1].output.lines[i] : i \in 1 .. Len(last_closed[1].output.lines)}
  /\ Len(log) = 1

\* the argument list of the request of the fold f in the Environment e, as
\* C30 gives it without the options: -k, --include or -v, the URL, -X and
\* the method, -H and a header for every header line, -d and the body if
\* the body was started, -F and a form for every form flag
ArgsOf(f, e) ==
  LET Sub(t) == parse_selectors(t, e).val
      RECURSIVE Pairs(_, _, _)
      Pairs(flag, list, auth) ==
        IF list = <<>> THEN <<>>
        ELSE << <<flag>>, IF auth THEN handle_basic_auth(Sub(Head(list)))
                          ELSE Sub(Head(list)) >>
             \o Pairs(flag, Tail(list), auth)
  IN << <<"-k">>, <<IF f.is_verbose THEN "-v" ELSE "--include">>, Sub(f.url),
        <<"-X">>, f.method >>
     \o Pairs("-H", f.headers, TRUE)
     \o (IF f.request_body_started THEN << <<"-d">>, Sub(f.request_body) >> ELSE <<>>)
     \o Pairs("-F", f.multipart_forms, FALSE)

\* a field of the request of f does not substitute in the Environment e
FieldFails(f, e) ==
  \/ ~parse_selectors(f.url, e).ok
  \/ \E i \in 1 .. Len(f.headers) : ~parse_selectors(f.headers[i], e).ok
  \/ \E i \in 1 .. Len(f.multipart_forms) : ~parse_selectors(f.multipart_forms[i], e).ok
  \/ f.request_body_started /\ ~parse_selectors(f.request_body, e).ok

\* the lines a step adds to the output of the fold whose request it issues
Answer ==
  SubSeq(Successor.output.lines, Len(fold_env.output.lines) + 1,
         Len(Successor.output.lines))

\* C29: a step that issues the request of a fold in debug mode, verbose or
\* not and whatever curl would answer: if a field does not substitute the
\* fold is in error and no command line is written; else the fold is not
\* in error, the output gains the line "curl" and the arguments joined by
\* spaces and besides only the end marker of the fold, nothing of what curl
\* answers, and a response variable, if the fold names one, holds the
\* empty string after the step.
C29_DebugDoesNotCall ==
  [][LET IsCommand(l) == l.k = "text" /\ Head(l.toks) = "curl"
         Debug(f0, f1, new) ==
           IF FieldFails(f0, env)
             THEN /\ f1.error
                  /\ \A i \in 1 .. Len(new) : ~IsCommand(new[i])
             ELSE /\ ~f1.error
                  /\ new # <<>>
                  /\ Head(new) = TextLine(Joined(<< <<"curl">> >> \o ArgsOf(f0, env)))
                  /\ \A i \in 2 .. Len(new) : new[i].k = "end"
                  /\ f0.response_variable # "" =>
                       /\ f0.response_variable \in DOMAIN env'
                       /\ env'[f0.response_variable] = Str(<<>>)
                       /\ file' = env'
     IN (Issues /\ fold_env.is_debug) => Debug(fold_env, Successor, Answer)]_vars

\* the fold '###{ a', '# @debug', '# @name r', 'GET u{{.x}}', '###} c' was
\* run on the env file that holds x = 0: the command line is in the output
\* and r holds the empty string
C29_Witness ==
  /\ cur = EndC
  /\ last_closed # <<>>
  /\ last_closed[1].is_debug
  /\ last_closed[1].issued = 1
  /\ ~last_closed[1].error
  /\ last_closed[1].output.lines =
       <<TextLine(<<"curl", " ", "-k", " ", "--include", " ", "u", "0", " ", "-X", " ",
                    "GET">>), EndC>>
  /\ DOMAIN env = {"x", "r"}
  /\ env["r"] = Str(<<>>)

\* the arguments of the options flags of a fold, in the order of its lines
RECURSIVE OptionsOf(_)
OptionsOf(ls) ==
  IF ls = <<>> THEN <<>>
  ELSE (IF Head(ls).k = "hash" /\ Head(ls).flag = "options" THEN <<Head(ls).arg>>
        ELSE <<>>) \o OptionsOf(Tail(ls))

\* C30: the command line a fold in debug mode prints when its request is
\* issued and its fields substitute is "curl" followed by the arguments
\* -k, --include or -v, the URL, -X, the method, the -H pairs, -d and the
\* body if the body was started, the -F pairs, and the arguments of the
\* options flags of the fold, in the order of its lines.
C30_ArgumentOrder ==
  [][(Issues /\ fold_env.is_debug /\ ~FieldFails(fold_env, env)) =>
       /\ Answer # <<>>
       /\ Head(Answer) =
            TextLine(Joined(<< <<"curl">> >> \o ArgsOf(fold_env, env)
                            \o OptionsOf(fold_env.ret.lines)))]_vars

(***************************************************************************)
(* C31: the classification of the raw response.  In every state in which   *)
(* the current fold has a request to issue, the request is issued for each *)
(* of the answers of curl: the text is what the output of the fold gains,  *)
(* the value what the capture name of the fold holds afterwards.           *)
(***************************************************************************)
\* the fold f0 gives, with the answer raw on stdout and diag on stderr, a
\* fold and an Environment r that are classified as C31 says (split = TRUE)
\* or, for a verbose request, as an unsplit pair of diag and raw
Classified(f0, raw, diag, r, split) ==
  LET Blank(j) == j + 1 <= Len(raw.lines) /\ raw.lines[j + 1] = BlankLine
      First(j) == Blank(j) /\ \A m \in 1 .. (j - 1) : ~Blank(m)
      Body(j) == [lines |-> SubSeq(raw.lines, j + 2, Len(raw.lines)), open |-> raw.open]
      Value(body, n) ==
        /\ Len(body.lines) = 1
        /\ body.lines[1].k = "text"
        /\ n <= Len(body.lines[1].toks)
        /\ \A i \in 1 .. (n - 1) : body.lines[1].toks[i] = " "
        /\ from_str(SubSeq(body.lines[1].toks, n, Len(body.lines[1].toks))).ok
      Parsed(body) ==
        from_str(SubSeq(body.lines[1].toks,
                        CHOOSE n \in 1 .. Len(body.lines[1].toks) : Value(body, n),
                        Len(body.lines[1].toks))).val
      Json(body) == \E n \in 1 .. 3 : Value(body, n)
      Gives(text, value) ==
        /\ ~r.f.error
        /\ r.f.output = PushStr(f0.output, text)
        /\ f0.response_variable # "" =>
             /\ f0.response_variable \in DOMAIN r.g.env
             /\ r.g.env[f0.response_variable] = value
      Pretty(headers, value) ==
        [lines |-> headers \o <<BlankLine, TextLine(to_string(value))>>, open |-> TRUE]
      Split(j) ==
        IF Json(Body(j))
          THEN Gives(Pretty(SubSeq(raw.lines, 1, j), Parsed(Body(j))), Parsed(Body(j)))
          ELSE Gives(raw, Str(StrOf(Body(j))))
      Whole ==
        IF Json(raw)
          THEN Gives(Pretty(Append(diag.lines, BlankLine), Parsed(raw)), Parsed(raw))
          ELSE Gives([lines |-> diag.lines \o <<BlankLine, BlankLine>> \o raw.lines,
                      open |-> raw.open],
                     Str(StrOf(raw)))
  IN IF ~split THEN Whole
     ELSE IF \A j \in 1 .. Len(raw.lines) : ~Blank(j) THEN Gives(raw, Str(<<>>))
     ELSE \E j \in 1 .. Len(raw.lines) : First(j) /\ Split(j)

\* the current fold has a request that would be issued now
Pending == fold_started /\ fold_env.request_started /\ ~fold_env.error

\* C31 as stated: whatever the flags of the fold, every response is
\* classified by its first empty line: none, the text is the response and
\* the value the empty string; else the part after it is no JSON, the text
\* is the response and the value that part, or it is JSON, the value is the
\* parsed document and the text shows its canonical form after the headers.
C31_ClassifiedAlways ==
  Pending =>
    \A io \in ResponseIo :
      io.curl.ok =>
        Classified(fold_env, io.curl.out, io.curl.err,
                   FoldEnv_make_request(fold_env, [env |-> env, file |-> file, log |-> log], io),
                   TRUE)

\* C31 amended: so is every response of a request that is not verbose; the
\* response of a verbose request is not split: the diagnostics stand for
\* the headers and the whole of stdout is the body, JSON or not.
C31_Classified ==
  Pending =>
    \A io \in ResponseIo :
      io.curl.ok =>
        Classified(fold_env, io.curl.out, io.curl.err,
                   FoldEnv_make_request(fold_env, [env |-> env, file |-> file, log |-> log], io),
                   ~fold_env.is_verbose)

\* the fold '###{ a', '# @name r', 'GET u', '###} c' was closed with the
\* answer 'HTTP 200', '', ' 7': r holds the number 7 and the output shows
\* the status line, the empty line and 7
C31_Witness ==
  /\ cur = EndC
  /\ last_closed # <<>>
  /\ ~last_closed[1].is_verbose
  /\ last_closed[1].issued = 1
  /\ last_closed[1].output.lines =
       <<TextLine(<<"HTTP 200">>), BlankLine, TextLine(<<"7">>), EndC>>
  /\ DOMAIN env = {"r"}
  /\ env["r"] = Num(7)
  /\ file = env

(***************************************************************************)
(* C32: the lines of a fold after its request line.                        *)
(***************************************************************************)
\* the step reads a line of the body of a fold whose request line has been
\* read and that has met no divider
AfterRequestLine == BodyStep /\ fold_env.request_started /\ ~fold_env.old_output_started

\* the line read becomes a header, starts the body or is appended to the
\* body, by the state of the fold alone
ByState(f0, f1, l) ==
  LET Text == IF l = BlankLine THEN <<>> ELSE LineToks(l)
  IN IF ~f0.request_body_started /\ l # BlankLine
       THEN /\ f1.headers = Append(f0.headers, Text)
            /\ ~f1.request_body_started
            /\ f1.request_body = f0.request_body
     ELSE IF ~f0.request_body_started
       THEN /\ f1.request_body_started
            /\ f1.headers = f0.headers
            /\ f1.request_body = f0.request_body
     ELSE /\ f1.request_body = f0.request_body \o Text
          /\ f1.request_body_started
          /\ f1.headers = f0.headers

\* C32 as stated: every line read after the request line, whatever its
\* first character and whatever the state of the fold, is a header before
\* the first blank line, starts the body when it is the first blank line
\* and is appended to the body after it.
C32_AnyLineByState ==
  [][AfterRequestLine => ByState(fold_env, fold_env', cur')]_vars

\* C32 amended: so is every line that begins neither with '@' nor with '#',
\* read in a fold without error; a line that begins with '@' is executed as
\* an assignment and a line that begins with '#' is read as a flag, and
\* neither they nor the lines read in a fold in error change the headers,
\* the body or the mode.
C32_LinesByState ==
  [][AfterRequestLine =>
       LET Same(f0, f1) ==
             /\ f1.headers = f0.headers
             /\ f1.request_body = f0.request_body
             /\ f1.request_body_started = f0.request_body_started
       IN /\ (~fold_env.error /\ cur'.k \in {"text", "blank"}) =>
               ByState(fold_env, fold_env', cur')
          /\ (fold_env.error \/ cur'.k \in {"assign", "hash"}) => Same(fold_env, fold_env')
          /\ (~fold_env.error /\ cur'.k = "assign") => Len(log') = Len(log) + 1
          /\ (~fold_env.error /\ cur'.k = "hash") => fold_env' = parse_flags(
               [fold_env EXCEPT !.ret = PushNL(PushLine(insert_newline(@), cur'))], cur')]_vars

\* '###{ a', 'GET u{{.x}}', 'h{{.x}}', '', 'h{{.x}}' has been read: one
\* header, and the body holds the last line
C32_Witness ==
  /\ cur = TplX
  /\ fold_started
  /\ fold_env.ret.lines = <<ReqX, TplX, BlankLine, TplX>>
  /\ fold_env.headers = <<TplX.toks>>
  /\ fold_env.request_body_started
  /\ fold_env.request_body = TplX.toks
  /\ ~fold_env.error

(***************************************************************************)
(* C33: the lines read while no fold is open.                              *)
(***************************************************************************)
\* the step reads, while no fold is open, a line that opens none
PassesThrough == LineRead /\ ~fold_started /\ ~IsStart(cur')

\* C33 as stated: a blank line read while no fold is open, right after
\* another blank line that was passed through to an output that is not
\* empty, adds nothing to the output.
C33_BlankLinesCollapse ==
  [][(PassesThrough /\ cur' = BlankLine /\ cur = BlankLine /\ nread > 0 /\ ~IsEmpty(ret)) =>
       ret' = ret]_vars

\* C33 amended: a line read while no fold is open is appended to the
\* output as it is, after a newline unless the output is empty: the
\* characters of the output grow by the newline and the line, the last line
\* of the output is the line read, and a blank line adds the newline alone,
\* one for every blank line of the source; blank lines read while the output
\* is empty add nothing.  The step executes nothing and leaves the fold
\* state and the Environment alone.
C33_PassThrough ==
  [][PassesThrough =>
       LET Chars(l) == IF l.k = "text" THEN l.toks ELSE IF l = BlankLine THEN <<>> ELSE <<"?">>
       IN /\ StrOf(ret') = StrOf(ret) \o (IF IsEmpty(ret) THEN <<>> ELSE <<"\n">>) \o Chars(cur')
          /\ cur' # BlankLine =>
               /\ ret'.open
               /\ LastOf(ret'.lines) = cur'
               /\ Front(ret'.lines) = ret.lines \o (IF ret.lines # <<>> /\ ~ret.open
                                                      THEN <<BlankLine>> ELSE <<>>)
          /\ cur' = BlankLine =>
               /\ ~ret'.open
               /\ ret'.lines = ret.lines \o (IF ret.open \/ IsEmpty(ret) THEN <<>>
                                             ELSE <<BlankLine>>)
          /\ ~fold_started'
          /\ env' = env /\ file' = file /\ log' = log]_vars

\* 'GET u', '', '', 'GET u' was read with no fold open: the output holds
\* the two blank lines between the two lines of text
C33_Witness ==
  /\ ~fold_started
  /\ nread = 4
  /\ ret = [lines |-> <<RequestLine, BlankLine, BlankLine, RequestLine>>, open |-> TRUE]
  /\ StrOf(ret) = <<"GET", " ", "u", "\n", "\n", "\n", "GET", " ", "u">>

(***************************************************************************)
(* C34: the sessions of the remote destinations.                           *)
(***************************************************************************)
\* C34: after every step, no destination has two sessions that are not
\* closed, and the session of a running operation is not in the map; when
\* a remote operation ends, with success or with an error, its session is
\* in the map under its destination; no session is closed twice, none is
\* closed before the end of the program, and after the end of the program
\* every session connected has been closed once, there.
C34_SessionsLeased ==
  [][LET Live(i) == links'[i].closed = 0
         Pooled(i) == \E d \in DOMAIN sessions' : sessions'[d] = i
         Ends == session # <<>> /\ session' = <<>>
     IN /\ \A i, j \in 1 .. Len(links') :
             (Live(i) /\ Live(j) /\ links'[i].dest = links'[j].dest) => i = j
        /\ \A d \in DOMAIN sessions' : links'[sessions'[d]].dest = d
        /\ session' # <<>> =>
             /\ session'[1].dest \notin DOMAIN sessions'
             /\ ~Pooled(session'[1].id)
        /\ Ends =>
             /\ session[1].dest \in DOMAIN sessions'
             /\ sessions'[session[1].dest] = session[1].id
        /\ \A i \in 1 .. Len(links') :
             /\ links'[i].closed <= 1
             /\ links'[i].closed = 1 => pc' = "dropped" /\ links'[i].at = "shutdown"
             /\ pc' = "dropped" => links'[i].closed = 1]_vars

(***************************************************************************)
(* C35: the outcome of the request of a fold.                              *)
(***************************************************************************)
\* C35: a request is issued only for a fold that is not in error and has
\* not issued it, and sets made_request.  If a field does not substitute,
\* or else if curl fails, the fold is in error, its output gains the error
\* text and a newline (and besides only its end marker), and neither the
\* Environment nor the env file changes.  Else curl answered: without a
\* capture name the output gains the response text and nothing is stored;
\* with one, either the name holds the value of the response in the
\* Environment and in the env file, every other key is as before and the
\* output gains the response text, or storing failed, the fold is in error
\* and its output gains the error of the store and no response text.
C35_RequestOutcome ==
  [][LET Begins(new, text) ==
           /\ Len(text.lines) <= Len(new)
           /\ SubSeq(new, 1, Len(text.lines)) = text.lines
           /\ \A i \in (Len(text.lines) + 1) .. Len(new) : new[i].k = "end"
         Unwritten == env' = env /\ file' = file
         FailedWith(f1, new, e) == f1.error /\ Begins(new, PushNL(e))
         Fields(f0) ==
           {f0.url} \cup {f0.headers[i] : i \in 1 .. Len(f0.headers)}
             \cup {f0.multipart_forms[i] : i \in 1 .. Len(f0.multipart_forms)}
             \cup (IF f0.request_body_started THEN {f0.request_body} ELSE {})
         Stored(name, value) ==
           /\ name \in DOMAIN env'
           /\ env'[name] = value
           /\ DOMAIN env' = DOMAIN env \cup {name}
           /\ \A k \in DOMAIN env \ {name} : env'[k] = env[k]
           /\ file' = env'
         Answered(f0, f1, new, r) ==
           IF f0.response_variable = ""
             THEN ~f1.error /\ Begins(new, r.text) /\ Unwritten
             ELSE \/ ~f1.error /\ Begins(new, r.text) /\ Stored(f0.response_variable, r.val)
                  \/ /\ FailedWith(f1, new, io_error(<<"fs::write failed">>))
                     /\ \A i \in 1 .. Len(new) : new[i] \notin
                          {r.text.lines[n] : n \in 1 .. Len(r.text.lines)} \ {BlankLine}
                     /\ file' = file
         Outcome(f0, f1, new) ==
           IF FieldFails(f0, env)
             THEN /\ \E t \in Fields(f0) :
                       /\ ~parse_selectors(t, env).ok
                       /\ FailedWith(f1, new, parse_selectors(t, env).err)
                  /\ Unwritten
           ELSE \/ FailedWith(f1, new, CurlFail.err) /\ Unwritten
                \/ \E io \in CaptureIo :
                     /\ io.curl.ok
                     /\ Answered(f0, f1, new,
                                 Classify(io.curl.out, io.curl.err, f0.is_verbose))
     IN Issues =>
          /\ ~fold_env.error
          /\ fold_env.issued = 0
          /\ ~fold_env.made_request
          /\ Successor.made_request
          /\ Outcome(fold_env, Successor, Answer)]_vars

\* the fold '###{ a', '# @name r', 'GET u{{.x}}', '###} c' was run on the env
\* file that holds x, and the env file could not be written: the fold is in
\* error, its output holds the error of the store and not the response
C35_Witness ==
  /\ cur = EndC
  /\ last_closed # <<>>
  /\ last_closed[1].ret.lines = <<NameFlag, ReqX>>
  /\ last_closed[1].issued = 1
  /\ last_closed[1].error
  /\ last_closed[1].output.lines = <<TextLine(<<"fs::write failed">>), EndC>>
  /\ file = StoredX

(***************************************************************************)
(* C36: a request line without a space.                                    *)
(***************************************************************************)
\* the step reads the first request line of a fold without error, and the
\* line holds no space
Unparsable ==
  /\ BodyStep
  /\ ~fold_env.error
  /\ ~fold_env.old_output_started
  /\ ~fold_env.request_started
  /\ cur'.k = "text"
  /\ \A i \in 1 .. Len(cur'.toks) : cur'.toks[i] # " "

\* the request line of the fold was read and gave no URL
Unsplit(f) == f.request_started /\ f.url = <<>>

\* C36: the step that reads a request line without a space appends the
\* line 'Could not parse line: ' and the line to the output of the fold,
\* sets its error flag and issues nothing; from then on the fold is in
\* error, has issued no request when it is suspended, closed or at the end
\* of the input, and every line of its body is appended to its raw input
\* and changes nothing else of the fold nor of the Environment.
C36_RequestLineUnparsable ==
  [][/\ Unparsable =>
          /\ fold_env.issued = 0
          /\ fold_env'.issued = 0
          /\ fold_env'.error
          /\ Unsplit(fold_env')
          /\ Captured
          /\ ~fold_env'.output.open
          /\ LastOf(fold_env'.output.lines) =
               TextLine(<<"Could not parse line: ">> \o cur'.toks)
          /\ Front(fold_env'.output.lines) = fold_env.output.lines
          /\ env' = env /\ file' = file /\ log' = log
     /\ (fold_started /\ Unsplit(fold_env) /\ (LineRead \/ AtEndOfInput)) =>
          /\ fold_env.error
          /\ Successor.error
          /\ Successor.issued = 0
          /\ ~Issues
          /\ (BodyStep /\ ~fold_env.old_output_started) => Captured /\ NotInterpreted]_vars

\* the fold '###{ a', 'h{{.x}}', '@x = 1', 'GET u{{.x}}', '###} c' has been
\* read: the fold is in error, its output is the message and the end marker,
\* the assignment was not executed and no request was issued
C36_Witness ==
  /\ cur = EndC
  /\ last_closed # <<>>
  /\ last_closed[1].ret.lines = <<TplX, AssignOk, ReqX>>
  /\ last_closed[1].error
  /\ last_closed[1].issued = 0
  /\ last_closed[1].output.lines =
       <<TextLine(<<"Could not parse line: ", "h", "{{", ".", "x", "}}">>), EndC>>
  /\ log = <<>>

(***************************************************************************)
(* C37: the status of a fold and the status on its start marker.           *)
(***************************************************************************)
\* C37: a start marker that opens a fold gives the fold the state that the
\* same marker without its 'executed' suffix gives: the start marker stored
\* has no suffix, the title is the title of the line and the error flag is
\* unset, whatever the suffix.  When a fold is closed, the start marker
\* written is the stored one with ' executed (SUCCESS)' or ' executed
\* (ERROR)', and the result header holds RESULT or ERROR, by the error flag
\* of the fold at that time.
C37_StatusOfRun ==
  [][LET Bare(l) == [k |-> "start", cond |-> l.cond, name |-> l.name, suf |-> ""]
         AsFrom(Q) ==
           /\ fold_env' = Q.fold_env
           /\ ret' = Q.ret
           /\ fold_started' = Q.fold_started
           /\ env' = Q.g.env /\ file' = Q.g.file /\ log' = Q.g.log
         Written(f, before, after, at, header) ==
           /\ Len(after.ret.lines) > Len(before.ret.lines)
           /\ after.ret.lines[Len(before.ret.lines) + 1] =
                [f.start_marker EXCEPT !.suf = Status(f.error)]
           /\ Len(after.output.lines) >= Len(before.output.lines) + at
           /\ after.output.lines[Len(before.output.lines) + at] = header
     IN /\ (OpensFold /\ cur'.k = "start") =>
             /\ fold_env'.start_marker = Bare(cur')
             /\ fold_env'.title = [cond |-> cur'.cond, name |-> cur'.name]
             /\ ~fold_env'.error
             /\ AsFrom(LineStep(CurP, Bare(cur'), IoOk))
        /\ (ClosesNested /\ ~IsEmpty(fold_env.ret)) =>
             Written(last_closed'[1], fold_env.parent_fold[1], fold_env', 1,
                     HashLine("subhdr", <<>>, last_closed'[1].title,
                              ResultWord(last_closed'[1].error)))
        /\ (ClosesTop /\ ~IsEmpty(fold_env.ret)) =>
             Written(last_closed'[1], [ret |-> ret, output |-> ret],
                     [ret |-> ret', output |-> ret'], Len(fold_env.ret.lines) + 2,
                     DividerLine(last_closed'[1].title,
                                 ResultWord(last_closed'[1].error)))]_vars

\* '###{ a', '@y = {{.dne}}', '###} c' and '###{ a executed (ERROR)' have
\* been read: the first fold is written with ERROR, and the fold that the
\* marker with the suffix opens has the marker without it, the title a and
\* no error
C37_Witness ==
  /\ cur = StartLine(<<>>, TitleA, "ERROR")
  /\ nread = 4
  /\ fold_started
  /\ fold_env.start_marker = StartA
  /\ fold_env.title = [cond |-> <<>>, name |-> TitleA]
  /\ ~fold_env.error
  /\ Len(ret.lines) = 5
  /\ ret.lines[1] = StartLine(<<>>, TitleA, "ERROR")
  /\ ret.lines[2] = AssignBad
  /\ ret.lines[3] = DividerLine([cond |-> <<>>, name |-> TitleA], "ERROR")

(***************************************************************************)
(* C38: a while block that runs zero times, run again on its rendering.    *)
(***************************************************************************)
\* the output of the program run on the text r in the Environment g
RunOn(r, g) == parse_input(LinesOf(r), g, FALSE, IoOk).out

\* C38: when a while block read at the top level runs zero times, because
\* its condition is not "true" or cannot be evaluated, its rendering holds
\* exactly one divider line, and the program run on that rendering, in the
\* Environment the step leaves, writes the same rendering, and again when
\* run on what it wrote.
C38_SyntheticIdempotent ==
  [][LET Dividers(r) == {i \in 1 .. Len(r.lines) : IsDivider(r.lines[i])}
         Same(r, again) ==
           /\ Cardinality(Dividers(r)) = 1
           /\ again = r
           /\ Cardinality(Dividers(again)) = 1
         Idempotent(r, g) ==
           /\ Same(r, RunOn(r, g))
           /\ Same(r, RunOn(RunOn(r, g), g))
     IN (WhileRead /\ ~fold_started /\ ~ConditionTrue(last_while'[1], EnvNow, 0)) =>
          Idempotent(last_while'[1].output, [env |-> env', file |-> file', log |-> log'])]_vars

(***************************************************************************)
(* C39: a while block at the top level after earlier output.               *)
(***************************************************************************)
\* C39: when a while block is read at the top level and the output is not
\* empty, the rendering of the block is appended as lines of its own: the
\* output before the step is kept line for line, its last line included,
\* and the first line of the rendering, the start marker of the block, is
\* the line after it.
C39_WhileOnNewLine ==
  [][(WhileRead /\ pc' = "reading" /\ ~fold_started /\ ~IsEmpty(ret)) =>
       /\ Len(ret'.lines) = Len(ret.lines) + Len(last_while'[1].output.lines)
       /\ SubSeq(ret'.lines, 1, Len(ret.lines)) = ret.lines
       /\ ret'.lines[Len(ret.lines) + 1] = last_while'[1].output.lines[1]
       /\ IsStart(ret'.lines[Len(ret.lines) + 1])]_vars

(***************************************************************************)
(* C40: the lines of a fold read after its request was issued.             *)
(***************************************************************************)
\* C40: a line read in a fold whose request has been issued is not taken
\* as a header or as a line of the body: the headers, the body and the mode
\* of the fold stay those of the request issued.
C40_RequestComplete ==
  [][(BodyStep /\ fold_env.issued > 0) =>
       /\ fold_env'.headers = fold_env.headers
       /\ fold_env'.request_body = fold_env.request_body
       /\ fold_env'.request_body_started = fold_env.request_body_started]_vars

=============================================================================
